---- MODULE Spec2Model ----
(***************************************************************************)
(* The runtime of the bytecode virtual machine: values, heap objects, the  *)
(* open-addressed hash table, the allocator with its mark-sweep collector, *)
(* and the interpreter loop of vm.c.                                       *)
(*                                                                         *)
(* Heap objects live in `heap`, a sequence of cells; the address of an     *)
(* object is its index and 0 is NULL.  A freed cell keeps its last content *)
(* with live = FALSE: a read through a dangling pointer is undefined       *)
(* behaviour, which every action resolves nondeterministically between     *)
(* "the stale bytes are read" and "the process dies" (status "crashed").   *)
(***************************************************************************)
EXTENDS Integers, Sequences, FiniteSets, TLC

VARIABLES
    vm,      \* struct VM: stack, stackTop, frames, openUpvalues, objects, tables, counters
    heap,    \* the heap cells, by address
    status,  \* where the process is: "boot", "ready", "run", or how run() ended
    out,     \* what was written to stdout, one entry per PRINT
    ub,      \* history: the last action has performed undefined behaviour
    gcLog,   \* history: the collections run by the last action
    last,    \* history: the instruction of the last action and the state it started from
    ref,     \* the same program run with no collection ever performed
    prog,    \* input: index of the compiled program
    mode     \* input: build flag, "stress" (DEBUG_STRESS_GC) or "normal"

vars == <<vm, heap, status, out, ub, gcLog, last, ref, prog, mode>>

(***************************************************************************)
(* Bounds and scaled limits                                                *)
(***************************************************************************)
\* FRAMES_MAX and UINT8_COUNT of vm.h, scaled down; STACK_MAX is their product.
FRAMES_MAX == 3
UINT8_COUNT == 4
STACK_MAX == FRAMES_MAX * UINT8_COUNT
\* Memory that follows vm.stack and that an unchecked push can still write to.
RedZone == 2
StackSlots == STACK_MAX + RedZone

(***************************************************************************)
(* Values (value.h): a tag and a payload.  Booleans carry 0 / 1.           *)
(***************************************************************************)
NIL_VAL == [t |-> "nil", v |-> 0]
BOOL_VAL(b) == [t |-> "bool", v |-> IF b THEN 1 ELSE 0]
NUMBER_VAL(n) == [t |-> "num", v |-> n]
OBJ_VAL(a) == [t |-> "obj", v |-> a]
IS_NIL(v) == v.t = "nil"
IS_BOOL(v) == v.t = "bool"
IS_NUMBER(v) == v.t = "num"
IS_OBJ(v) == v.t = "obj"
valuesEqual(a, b) == a = b

\* sizeof of the structs on an LP64 build
SizeOf(k) ==
    CASE k = "Entry" -> 24
      [] k = "Table" -> 16
      [] k = "ptr" -> 8
      [] k = "char" -> 1
      [] k = "string" -> 40
      [] k = "function" -> 72
      [] k = "native" -> 24
      [] k = "closure" -> 40
      [] k = "upvalue" -> 48
      [] k = "class" -> 40
      [] k = "instance" -> 40
      [] k = "bound" -> 40

GROW_CAPACITY(capacity) == IF capacity < 8 THEN 8 ELSE capacity * 2

(***************************************************************************)
(* hashString: FNV-1a.  Only the low 16 bits of the 32-bit hash are kept;  *)
(* they are exactly the low 16 bits of the value the source computes, and  *)
(* every table capacity is a power of two below 2^16.                      *)
(***************************************************************************)
HashMod == 2 ^ 16
FNV_OFFSET == 40389
FNV_PRIME == 403

\* x = F1(x); x = F2(x); ...: the statements of a function body, run in order.
\* DOMAIN x # {} holds of every state: the tests only make each state be
\* computed before the next statement runs.
Run2(x, F1(_), F2(_)) ==
    LET x1 == F1(x) IN IF DOMAIN x1 # {} THEN F2(x1) ELSE x
Run3(x, F1(_), F2(_), F3(_)) ==
    LET x1 == F1(x)
        x2 == F2(x1)
    IN  IF DOMAIN x1 # {} /\ DOMAIN x2 # {}
        THEN F3(x2)
        ELSE x
Run5(x, F1(_), F2(_), F3(_), F4(_), F5(_)) ==
    LET x1 == F1(x)
        x2 == F2(x1)
        x3 == F3(x2)
        x4 == F4(x3)
    IN  IF DOMAIN x1 # {} /\ DOMAIN x2 # {} /\ DOMAIN x3 # {} /\ DOMAIN x4 # {}
        THEN F5(x4)
        ELSE x

Min(a, b) == IF a < b THEN a ELSE b

\* The loops of the source are unrolled, 8, 16 or 32 turns long.  A loop that
\* would need more turns than its unrolling has no value.
Overrun == CHOOSE x \in {} : TRUE
Ended(C(_), x) == IF C(x) THEN Overrun ELSE x

\* while (C(x)) x = F(x)
While8(C(_), F(_), x) ==
    LET Turn(y) == IF C(y) THEN F(y) ELSE y
        x1 == Turn(x)
        x2 == Turn(x1)
        x3 == Turn(x2)
        x4 == Turn(x3)
        x5 == Turn(x4)
        x6 == Turn(x5)
        x7 == Turn(x6)
    IN  IF /\ DOMAIN x # {}
           /\ DOMAIN x1 # {}
           /\ DOMAIN x2 # {}
           /\ DOMAIN x3 # {}
           /\ DOMAIN x4 # {}
           /\ DOMAIN x5 # {}
           /\ DOMAIN x6 # {}
           /\ DOMAIN x7 # {}
        THEN Ended(C, Turn(x7))
        ELSE x
While32(C(_), F(_), x) ==
    LET Turn(y) == IF C(y) THEN F(y) ELSE y
        x1 == Turn(x)
        x2 == Turn(x1)
        x3 == Turn(x2)
        x4 == Turn(x3)
        x5 == Turn(x4)
        x6 == Turn(x5)
        x7 == Turn(x6)
        x8 == Turn(x7)
        x9 == Turn(x8)
        x10 == Turn(x9)
        x11 == Turn(x10)
        x12 == Turn(x11)
        x13 == Turn(x12)
        x14 == Turn(x13)
        x15 == Turn(x14)
        x16 == Turn(x15)
        x17 == Turn(x16)
        x18 == Turn(x17)
        x19 == Turn(x18)
        x20 == Turn(x19)
        x21 == Turn(x20)
        x22 == Turn(x21)
        x23 == Turn(x22)
        x24 == Turn(x23)
        x25 == Turn(x24)
        x26 == Turn(x25)
        x27 == Turn(x26)
        x28 == Turn(x27)
        x29 == Turn(x28)
        x30 == Turn(x29)
        x31 == Turn(x30)
    IN  IF /\ DOMAIN x # {}
           /\ DOMAIN x1 # {}
           /\ DOMAIN x2 # {}
           /\ DOMAIN x3 # {}
           /\ DOMAIN x4 # {}
           /\ DOMAIN x5 # {}
           /\ DOMAIN x6 # {}
           /\ DOMAIN x7 # {}
           /\ DOMAIN x8 # {}
           /\ DOMAIN x9 # {}
           /\ DOMAIN x10 # {}
           /\ DOMAIN x11 # {}
           /\ DOMAIN x12 # {}
           /\ DOMAIN x13 # {}
           /\ DOMAIN x14 # {}
           /\ DOMAIN x15 # {}
           /\ DOMAIN x16 # {}
           /\ DOMAIN x17 # {}
           /\ DOMAIN x18 # {}
           /\ DOMAIN x19 # {}
           /\ DOMAIN x20 # {}
           /\ DOMAIN x21 # {}
           /\ DOMAIN x22 # {}
           /\ DOMAIN x23 # {}
           /\ DOMAIN x24 # {}
           /\ DOMAIN x25 # {}
           /\ DOMAIN x26 # {}
           /\ DOMAIN x27 # {}
           /\ DOMAIN x28 # {}
           /\ DOMAIN x29 # {}
           /\ DOMAIN x30 # {}
           /\ DOMAIN x31 # {}
        THEN Ended(C, Turn(x31))
        ELSE x

\* for (i = lo; i <= hi; i++) x = F(x, i)
For8(F(_, _), x, lo, hi) ==
    LET Turn(y, i) == IF i <= hi THEN F(y, i) ELSE y
        x1 == Turn(x, lo)
        x2 == Turn(x1, lo + 1)
        x3 == Turn(x2, lo + 2)
        x4 == Turn(x3, lo + 3)
        x5 == Turn(x4, lo + 4)
        x6 == Turn(x5, lo + 5)
        x7 == Turn(x6, lo + 6)
    IN  IF /\ DOMAIN x # {}
           /\ DOMAIN x1 # {}
           /\ DOMAIN x2 # {}
           /\ DOMAIN x3 # {}
           /\ DOMAIN x4 # {}
           /\ DOMAIN x5 # {}
           /\ DOMAIN x6 # {}
           /\ DOMAIN x7 # {}
        THEN IF hi - lo < 8 THEN Turn(x7, lo + 7) ELSE Overrun
        ELSE x
For16(F(_, _), x, lo, hi) ==
    LET Turn(y, i) == IF i <= hi THEN F(y, i) ELSE y
        x1 == Turn(x, lo)
        x2 == Turn(x1, lo + 1)
        x3 == Turn(x2, lo + 2)
        x4 == Turn(x3, lo + 3)
        x5 == Turn(x4, lo + 4)
        x6 == Turn(x5, lo + 5)
        x7 == Turn(x6, lo + 6)
        x8 == Turn(x7, lo + 7)
        x9 == Turn(x8, lo + 8)
        x10 == Turn(x9, lo + 9)
        x11 == Turn(x10, lo + 10)
        x12 == Turn(x11, lo + 11)
        x13 == Turn(x12, lo + 12)
        x14 == Turn(x13, lo + 13)
        x15 == Turn(x14, lo + 14)
    IN  IF /\ DOMAIN x # {}
           /\ DOMAIN x1 # {}
           /\ DOMAIN x2 # {}
           /\ DOMAIN x3 # {}
           /\ DOMAIN x4 # {}
           /\ DOMAIN x5 # {}
           /\ DOMAIN x6 # {}
           /\ DOMAIN x7 # {}
           /\ DOMAIN x8 # {}
           /\ DOMAIN x9 # {}
           /\ DOMAIN x10 # {}
           /\ DOMAIN x11 # {}
           /\ DOMAIN x12 # {}
           /\ DOMAIN x13 # {}
           /\ DOMAIN x14 # {}
           /\ DOMAIN x15 # {}
        THEN IF hi - lo < 16 THEN Turn(x15, lo + 15) ELSE Overrun
        ELSE x
For32(F(_, _), x, lo, hi) ==
    LET Turn(y, i) == IF i <= hi THEN F(y, i) ELSE y
        x1 == Turn(x, lo)
        x2 == Turn(x1, lo + 1)
        x3 == Turn(x2, lo + 2)
        x4 == Turn(x3, lo + 3)
        x5 == Turn(x4, lo + 4)
        x6 == Turn(x5, lo + 5)
        x7 == Turn(x6, lo + 6)
        x8 == Turn(x7, lo + 7)
        x9 == Turn(x8, lo + 8)
        x10 == Turn(x9, lo + 9)
        x11 == Turn(x10, lo + 10)
        x12 == Turn(x11, lo + 11)
        x13 == Turn(x12, lo + 12)
        x14 == Turn(x13, lo + 13)
        x15 == Turn(x14, lo + 14)
        x16 == Turn(x15, lo + 15)
        x17 == Turn(x16, lo + 16)
        x18 == Turn(x17, lo + 17)
        x19 == Turn(x18, lo + 18)
        x20 == Turn(x19, lo + 19)
        x21 == Turn(x20, lo + 20)
        x22 == Turn(x21, lo + 21)
        x23 == Turn(x22, lo + 22)
        x24 == Turn(x23, lo + 23)
        x25 == Turn(x24, lo + 24)
        x26 == Turn(x25, lo + 25)
        x27 == Turn(x26, lo + 26)
        x28 == Turn(x27, lo + 27)
        x29 == Turn(x28, lo + 28)
        x30 == Turn(x29, lo + 29)
        x31 == Turn(x30, lo + 30)
    IN  IF /\ DOMAIN x # {}
           /\ DOMAIN x1 # {}
           /\ DOMAIN x2 # {}
           /\ DOMAIN x3 # {}
           /\ DOMAIN x4 # {}
           /\ DOMAIN x5 # {}
           /\ DOMAIN x6 # {}
           /\ DOMAIN x7 # {}
           /\ DOMAIN x8 # {}
           /\ DOMAIN x9 # {}
           /\ DOMAIN x10 # {}
           /\ DOMAIN x11 # {}
           /\ DOMAIN x12 # {}
           /\ DOMAIN x13 # {}
           /\ DOMAIN x14 # {}
           /\ DOMAIN x15 # {}
           /\ DOMAIN x16 # {}
           /\ DOMAIN x17 # {}
           /\ DOMAIN x18 # {}
           /\ DOMAIN x19 # {}
           /\ DOMAIN x20 # {}
           /\ DOMAIN x21 # {}
           /\ DOMAIN x22 # {}
           /\ DOMAIN x23 # {}
           /\ DOMAIN x24 # {}
           /\ DOMAIN x25 # {}
           /\ DOMAIN x26 # {}
           /\ DOMAIN x27 # {}
           /\ DOMAIN x28 # {}
           /\ DOMAIN x29 # {}
           /\ DOMAIN x30 # {}
           /\ DOMAIN x31 # {}
        THEN IF hi - lo < 32 THEN Turn(x31, lo + 31) ELSE Overrun
        ELSE x

\* a ^ b on bytes
Bit(a, i) == (a \div i) % 2
Xor8(a, b) ==
    ((Bit(a, 1) + Bit(b, 1)) % 2) + (2 * ((Bit(a, 2) + Bit(b, 2)) % 2))
        + (4 * ((Bit(a, 4) + Bit(b, 4)) % 2)) + (8 * ((Bit(a, 8) + Bit(b, 8)) % 2))
        + (16 * ((Bit(a, 16) + Bit(b, 16)) % 2)) + (32 * ((Bit(a, 32) + Bit(b, 32)) % 2))
        + (64 * ((Bit(a, 64) + Bit(b, 64)) % 2)) + (128 * ((Bit(a, 128) + Bit(b, 128)) % 2))

\* hash ^= key[i]; hash *= 16777619
hashStep(x, c) ==
    [hash |-> (((((x.hash \div 256) * 256) + Xor8(x.hash % 256, c)) * FNV_PRIME) % HashMod)]
hashString(key) ==
    For8(LAMBDA x, i : hashStep(x, key[i]), [hash |-> FNV_OFFSET], 1, Len(key)).hash

(***************************************************************************)
(* Run states.  The operators below are the C functions: they take the     *)
(* state of one run (a record s with the VM, the heap and the run's        *)
(* bookkeeping) and give the state after the call; s.ret and s.flag carry  *)
(* the C return value.                                                     *)
(***************************************************************************)
Live(s, a) == a \in 1..Len(s.heap) /\ s.heap[a].live

\* a read or write through pointer a
Touch(s, a) == [s EXCEPT !.ub = @ \/ ~Live(s, a)]

TableRef(k, a) == [k |-> k, a |-> a]
GetT(s, r) ==
    CASE r.k = "globals" -> s.vm.globals
      [] r.k = "strings" -> s.vm.strings
      [] r.k = "methods" -> s.heap[r.a].methods
      [] r.k = "fields" -> s.heap[r.a].fields
SetT(s, r, t) ==
    CASE r.k = "globals" -> [s EXCEPT !.vm.globals = t]
      [] r.k = "strings" -> [s EXCEPT !.vm.strings = t]
      [] r.k = "methods" -> [s EXCEPT !.heap[r.a].methods = t]
      [] r.k = "fields" -> [s EXCEPT !.heap[r.a].fields = t]

EmptyTable == [count |-> 0, capacity |-> 0, entries |-> <<>>]
initTable == EmptyTable

\* findEntry: the bucket index (from 0) for key.  The source loops until it
\* meets the key or a truly empty bucket; n counts the buckets visited, and
\* -1 stands for a probe that never ends.
RECURSIVE probeEntry(_, _, _, _, _, _)
probeEntry(entries, capacity, key, index, tombstone, n) ==
    IF n >= capacity THEN -1
    ELSE LET entry == entries[index + 1] IN
         IF entry.key = 0
         THEN IF IS_NIL(entry.value)
              THEN IF tombstone # -1 THEN tombstone ELSE index
              ELSE probeEntry(entries, capacity, key, (index + 1) % capacity,
                              IF tombstone = -1 THEN index ELSE tombstone, n + 1)
         ELSE IF entry.key = key
              THEN index
              ELSE probeEntry(entries, capacity, key, (index + 1) % capacity, tombstone, n + 1)

findEntry(h, entries, capacity, key) ==
    probeEntry(entries, capacity, key, h[key].hash % capacity, -1, 0)

tableGet(s, table, key) ==
    IF table.count = 0
    THEN [found |-> FALSE, value |-> NIL_VAL, ub |-> FALSE]
    ELSE LET entry == table.entries[findEntry(s.heap, table.entries, table.capacity, key) + 1] IN
         [found |-> entry.key # 0,
          value |-> IF entry.key # 0 THEN entry.value ELSE NIL_VAL,
          ub |-> ~Live(s, key)]

\* tableDelete leaving a truly empty bucket, and one entry less in count, where
\* the source leaves a tombstone
tableDeleteEmptied(s, table, key) ==
    IF table.count = 0
    THEN [table |-> table, found |-> FALSE, ub |-> FALSE]
    ELSE LET index == findEntry(s.heap, table.entries, table.capacity, key) IN
         IF table.entries[index + 1].key = 0
         THEN [table |-> table, found |-> FALSE, ub |-> ~Live(s, key)]
         ELSE [table |-> [table EXCEPT !.count = @ - 1,
                                       !.entries[index + 1] = [key |-> 0, value |-> NIL_VAL]],
               found |-> TRUE, ub |-> ~Live(s, key)]

tableDelete(s, table, key) ==
    IF table.count = 0
    THEN [table |-> table, found |-> FALSE, ub |-> FALSE]
    ELSE LET index == findEntry(s.heap, table.entries, table.capacity, key)
             entry == table.entries[index + 1]
         IN  IF entry.key = 0
             THEN [table |-> table, found |-> FALSE, ub |-> ~Live(s, key)]
             ELSE [table |-> [table EXCEPT !.entries[index + 1] =
                                  [key |-> 0, value |-> BOOL_VAL(TRUE)]],
                   found |-> TRUE, ub |-> ~Live(s, key)]

\* tableFindString: the interned string with these bytes, or NULL (0)
RECURSIVE probeString(_, _, _, _, _, _)
probeString(s, table, chars, hash, index, n) ==
    IF n >= table.capacity THEN [ret |-> -1, ub |-> FALSE]
    ELSE LET entry == table.entries[index + 1] IN
         IF entry.key = 0
         THEN IF IS_NIL(entry.value)
              THEN [ret |-> 0, ub |-> FALSE]
              ELSE probeString(s, table, chars, hash, (index + 1) % table.capacity, n + 1)
         ELSE IF /\ Len(s.heap[entry.key].chars) = Len(chars)
                 /\ s.heap[entry.key].hash = hash
                 /\ s.heap[entry.key].chars = chars
              THEN [ret |-> entry.key, ub |-> ~Live(s, entry.key)]
              ELSE LET r == probeString(s, table, chars, hash,
                                        (index + 1) % table.capacity, n + 1)
                   IN  [ret |-> r.ret, ub |-> r.ub \/ ~Live(s, entry.key)]

tableFindString(s, table, chars, hash) ==
    IF table.count = 0
    THEN [ret |-> 0, ub |-> FALSE]
    ELSE probeString(s, table, chars, hash, hash % table.capacity, 0)

(***************************************************************************)
(* Heap cells.  Every cell has the object header (type, isMarked, next)    *)
(* and `live`, which free() clears.                                        *)
(***************************************************************************)
StringCell(chars, hash) ==
    [type |-> "string", live |-> TRUE, isMarked |-> FALSE, next |-> 0,
     chars |-> chars, hash |-> hash]
FunctionCell ==
    [type |-> "function", live |-> TRUE, isMarked |-> FALSE, next |-> 0,
     arity |-> 0, upvalueCount |-> 0, name |-> 0, constants |-> <<>>, code |-> <<>>]
NativeCell ==
    [type |-> "native", live |-> TRUE, isMarked |-> FALSE, next |-> 0]
ClosureCell(function, upvalueCount) ==
    [type |-> "closure", live |-> TRUE, isMarked |-> FALSE, next |-> 0,
     function |-> function, upvalues |-> [i \in 1..upvalueCount |-> 0]]
\* location is the stack slot while the upvalue is open and -1 once it points
\* at its own closed field; slot is the slot it was captured from.
UpvalueCell(slot) ==
    [type |-> "upvalue", live |-> TRUE, isMarked |-> FALSE, next |-> 0,
     location |-> slot, closed |-> NIL_VAL, nextUpvalue |-> 0, slot |-> slot]
ClassCell(name) ==
    [type |-> "class", live |-> TRUE, isMarked |-> FALSE, next |-> 0,
     name |-> name, methods |-> initTable]
InstanceCell(klass) ==
    [type |-> "instance", live |-> TRUE, isMarked |-> FALSE, next |-> 0,
     klass |-> klass, fields |-> initTable]
BoundMethodCell(receiver, method) ==
    [type |-> "bound", live |-> TRUE, isMarked |-> FALSE, next |-> 0,
     receiver |-> receiver, method |-> method]

(***************************************************************************)
(* What an object refers to, and what the roots are (section 3 and 4.2 of  *)
(* the specification): the yardstick the collector is measured against.    *)
(***************************************************************************)
ObjsOf(vals) == {vals[i].v : i \in {j \in DOMAIN vals : IS_OBJ(vals[j])}}
TableObjs(table) ==
    LET used == {i \in DOMAIN table.entries : table.entries[i].key # 0} IN
    {table.entries[i].key : i \in used}
        \cup {table.entries[i].value.v : i \in {j \in used : IS_OBJ(table.entries[j].value)}}

References(h, a) ==
    LET cell == h[a] IN
    CASE cell.type = "string" -> {}
      [] cell.type = "native" -> {}
      [] cell.type = "function" -> ({cell.name} \cup ObjsOf(cell.constants)) \ {0}
      [] cell.type = "closure" ->
            ({cell.function} \cup {cell.upvalues[i] : i \in DOMAIN cell.upvalues}) \ {0}
      [] cell.type = "upvalue" -> IF IS_OBJ(cell.closed) THEN {cell.closed.v} ELSE {}
      [] cell.type = "class" -> ({cell.name} \cup TableObjs(cell.methods)) \ {0}
      [] cell.type = "instance" -> ({cell.klass} \cup TableObjs(cell.fields)) \ {0}
      [] cell.type = "bound" ->
            ({cell.method} \cup (IF IS_OBJ(cell.receiver) THEN {cell.receiver.v} ELSE {})) \ {0}

RECURSIVE OpenFrom(_, _, _)
OpenFrom(h, upvalue, n) ==
    IF upvalue = 0 \/ n = 0 THEN <<>>
    ELSE <<upvalue>> \o OpenFrom(h, h[upvalue].nextUpvalue, n - 1)
\* the open-upvalue list, head first
OpenList(s) == OpenFrom(s.heap, s.vm.openUpvalues, Len(s.heap))

Roots(s) ==
    ({s.vm.stack[i].v : i \in {j \in 0..(s.vm.stackTop - 1) :
                                   j < StackSlots /\ IS_OBJ(s.vm.stack[j])}}
        \cup {s.vm.frames[i].closure : i \in DOMAIN s.vm.frames}
        \cup {OpenList(s)[i] : i \in DOMAIN OpenList(s)}
        \cup TableObjs(s.vm.globals)
        \cup {s.vm.initString}
        \cup {s.compilers[i] : i \in DOMAIN s.compilers}) \ {0}

ReachFrom(h, roots) ==
    While8(LAMBDA x : x.frontier # {},
           LAMBDA x : [seen |-> x.seen \cup x.frontier,
                       frontier |-> (UNION {References(h, a) : a \in x.frontier})
                                        \ (x.seen \cup x.frontier)],
           [seen |-> {}, frontier |-> roots]).seen
Reachable(s) == ReachFrom(s.heap, Roots(s))

(***************************************************************************)
(* memory.c: marking                                                       *)
(***************************************************************************)
markObject(s, object) ==
    IF object = 0 THEN s
    ELSE LET s0 == Touch(s, object) IN
         IF s0.heap[object].isMarked
         THEN [s0 EXCEPT !.gc[Len(s.gc)].again = @ \cup {object}]
         ELSE [s0 EXCEPT !.heap[object].isMarked = TRUE,
                         !.vm.grayStack = Append(@, object),
                         !.gc[Len(s.gc)].pushed = Append(@, object)]

markValue(s, value) == IF IS_OBJ(value) THEN markObject(s, value.v) ELSE s

markArray(s, values) ==
    For8(LAMBDA x, i : markValue(x, values[i]), s, 1, Len(values))

markTable(s, table) ==
    For16(LAMBDA x, i : markValue(markObject(x, table.entries[i + 1].key),
                                table.entries[i + 1].value),
        s, 0, table.capacity - 1)

blackenObject(s, object) ==
    LET cell == s.heap[object] IN
    CASE cell.type = "instance" -> markTable(markObject(s, cell.klass), cell.fields)
      [] cell.type = "class" -> markObject(s, cell.name)
      [] cell.type = "closure" ->
            For8(LAMBDA x, i : markObject(x, cell.upvalues[i]),
                 markObject(s, cell.function), 1, Len(cell.upvalues))
      [] cell.type = "function" -> markArray(markObject(s, cell.name), cell.constants)
      [] cell.type = "upvalue" -> markValue(s, cell.closed)
      [] OTHER -> s

\* compiler.c is not part of these sources: markCompilerRoots marks the function
\* of every compiler still at work, s.compilers, the innermost one first.
markCompilerRoots(s) ==
    For8(LAMBDA x, i : markObject(x, x.compilers[Len(x.compilers) + 1 - i]),
         s, 1, Len(s.compilers))

\* the loops of markRoots
markStack(s) ==
    For32(LAMBDA x, slot : markValue(x, x.vm.stack[slot]),
          s, 0, Min(s.vm.stackTop, StackSlots) - 1)
markFrames(s) ==
    For8(LAMBDA x, i : markObject(x, x.vm.frames[i].closure), s, 1, Len(s.vm.frames))
\* for (upvalue = vm.openUpvalues; upvalue != NULL; upvalue = upvalue->next)
markOpenUpvalues(s) ==
    While8(LAMBDA x : x.upvalue # 0,
           LAMBDA x : [s |-> markObject(x.s, x.upvalue),
                       upvalue |-> x.s.heap[x.upvalue].nextUpvalue],
           [s |-> s, upvalue |-> s.vm.openUpvalues]).s
markGlobals(s) == markTable(s, s.vm.globals)

markRoots(s) ==
    Run5(s, markStack, markFrames, markOpenUpvalues, markGlobals, markCompilerRoots)

\* tracing that stops with one object left on the gray stack
traceButOne(s) ==
    While32(LAMBDA x : Len(x.vm.grayStack) > 1,
            LAMBDA x : blackenObject([x EXCEPT !.vm.grayStack = SubSeq(@, 1, Len(@) - 1)],
                                     x.vm.grayStack[Len(x.vm.grayStack)]),
            s)
traceReferences(s) ==
    While32(LAMBDA x : Len(x.vm.grayStack) > 0,
            LAMBDA x : blackenObject([x EXCEPT !.vm.grayStack = SubSeq(@, 1, Len(@) - 1)],
                                     x.vm.grayStack[Len(x.vm.grayStack)]),
            s)

\* tableRemoveWhite(&vm.strings): every key left unmarked by the trace is deleted
removeWhite(s, i) ==
    LET entry == s.vm.strings.entries[i + 1] IN
    IF entry.key = 0 THEN s
    ELSE IF s.heap[entry.key].isMarked THEN Touch(s, entry.key)
    ELSE [Touch(s, entry.key) EXCEPT
             !.vm.strings = tableDelete(s, s.vm.strings, entry.key).table]
tableRemoveWhite(s) == For16(removeWhite, s, 0, s.vm.strings.capacity - 1)

(***************************************************************************)
(* memory.c: reallocate, freeObject, sweep, collectGarbage.  They call     *)
(* each other: a collection frees through reallocate, and reallocate       *)
(* starts a collection whenever bytesAllocated is above nextGC.            *)
(***************************************************************************)
GC_HEAP_GROW_FACTOR == 2

RECURSIVE reallocate(_, _, _)
RECURSIVE freeObject(_, _)
RECURSIVE sweep(_)
RECURSIVE collectGarbage(_)

\* free(pointer) of an object
Release(s, object) == [s EXCEPT !.heap[object].live = FALSE, !.ub = @ \/ ~Live(s, object)]

freeTable(s, r) ==
    Run2(s, LAMBDA x : reallocate(x, SizeOf("Table") * GetT(x, r).capacity, 0),
         LAMBDA x : SetT(x, r, initTable))

\* the arrays an object owns, released before the object itself; freeChunk
\* releases the code, line and constant arrays, whose sizes are not tracked
freeChunk(s) ==
    Run3(s, LAMBDA x : reallocate(x, 0, 0), LAMBDA x : reallocate(x, 0, 0),
         LAMBDA x : reallocate(x, 0, 0))
freeOwned(s, object) ==
    LET cell == s.heap[object] IN
    CASE cell.type = "instance" -> freeTable(s, TableRef("fields", object))
      [] cell.type = "closure" -> reallocate(s, SizeOf("ptr") * Len(cell.upvalues), 0)
      [] cell.type = "function" -> freeChunk(s)
      [] cell.type = "string" -> reallocate(s, SizeOf("char") * (Len(cell.chars) + 1), 0)
      [] OTHER -> s

\* the switch of freeObject has no case for a bound method
freeObject(s, object) ==
    IF s.heap[object].type = "bound"
    THEN Touch(s, object)
    ELSE Run3(Touch(s, object),
              LAMBDA x : freeOwned(x, object),
              LAMBDA x : reallocate(x, SizeOf(s.heap[object].type), 0),
              LAMBDA x : Release(x, object))

\* one turn of the loop of sweep; x.swept collects what this walk unlinks
unlink(x) ==
    IF x.prev # 0
    THEN [Touch(x.s, x.prev) EXCEPT !.heap[x.prev].next = x.s.heap[x.object].next]
    ELSE [x.s EXCEPT !.vm.objects = x.s.heap[x.object].next]
sweepOne(x) ==
    IF x.s.heap[x.object].isMarked
    THEN [s |-> [Touch(x.s, x.object) EXCEPT !.heap[x.object].isMarked = FALSE],
          prev |-> x.object, object |-> x.s.heap[x.object].next, swept |-> x.swept]
    ELSE [s |-> freeObject(unlink([x EXCEPT !.s = Touch(x.s, x.object)]), x.object),
          prev |-> x.prev, object |-> x.s.heap[x.object].next,
          swept |-> x.swept \cup {x.object}]

sweep(s) ==
    While32(LAMBDA x : x.object # 0, sweepOne,
            [s |-> s, prev |-> 0, object |-> s.vm.objects, swept |-> {}])

\* History of a collection, kept in s.gc while it runs (one record for each
\* collection in progress, the innermost last) and moved to the log at its
\* end.  ListOf is the allocation list, KeysOf the keys of a table, MarkedOf
\* the objects whose mark bit is set.
ListOf(s) ==
    While32(LAMBDA x : x.object # 0,
            LAMBDA x : [list |-> Append(x.list, x.object), object |-> s.heap[x.object].next],
            [list |-> <<>>, object |-> s.vm.objects]).list
KeysOf(table) == {table.entries[n].key : n \in DOMAIN table.entries} \ {0}
MarkedOf(s) == {a \in DOMAIN s.heap : s.heap[a].isMarked}
\* at the start: what the roots reach, the object the running operation has
\* just made (s.ret), the allocation list
begin(s) ==
    [s EXCEPT !.gc = Append(@, [reachable |-> Reachable(s), held |-> s.ret,
                                list |-> ListOf(s), logged |-> Len(s.log),
                                bytes |-> s.vm.bytesAllocated, limit |-> s.vm.nextGC,
                                pushed |-> <<>>, again |-> {}, marked |-> {}, open |-> {},
                                gray |-> 0, keys |-> {}, kept |-> {}])]
\* after traceReferences: the marked objects, those of them with a referent
\* left unmarked, the length of the gray stack, the keys of vm.strings
traced(s) ==
    [s EXCEPT !.gc[Len(s.gc)].marked = MarkedOf(s),
              !.gc[Len(s.gc)].open =
                  {a \in MarkedOf(s) : ~(References(s.heap, a) \ {0} \subseteq MarkedOf(s))},
              !.gc[Len(s.gc)].gray = Len(s.vm.grayStack),
              !.gc[Len(s.gc)].keys = KeysOf(s.vm.strings)]
\* after tableRemoveWhite: the keys it left
scanned(s) == [s EXCEPT !.gc[Len(s.gc)].kept = KeysOf(s.vm.strings)]
\* the end of collectGarbage, and the collection's entry in the log
LogEntry(g, r) ==
    [reachable |-> g.reachable, held |-> g.held, list |-> g.list,
     pushed |-> g.pushed, again |-> g.again, marked |-> g.marked, open |-> g.open,
     gray |-> g.gray, keys |-> g.keys, kept |-> g.kept,
     nested |-> Len(r.s.log) - g.logged,
     bytes |-> g.bytes, limit |-> g.limit,
     bytesAfter |-> r.s.vm.bytesAllocated,
     swept |-> r.swept,
     unfreed |-> {a \in r.swept : r.s.heap[a].live},
     after |-> ListOf(r.s),
     final |-> KeysOf(r.s.vm.strings),
     stillMarked |-> {a \in DOMAIN r.s.heap : r.s.heap[a].live /\ r.s.heap[a].isMarked},
     dangling |-> {k \in KeysOf(r.s.vm.strings) : ~r.s.heap[k].live}]
nextCycle(r) ==
    [r.s EXCEPT !.vm.nextGC = r.s.vm.bytesAllocated * GC_HEAP_GROW_FACTOR,
                !.gc = SubSeq(@, 1, Len(@) - 1),
                !.log = Append(@, LogEntry(r.s.gc[Len(r.s.gc)], r))]
collectGarbage(s) ==
    Run5(s, begin,
         LAMBDA x : Run3(x, markRoots, traceReferences, traced),
         LAMBDA x : Run2(x, tableRemoveWhite, scanned),
         sweep, nextCycle)
\* G(G(x, 1), 2)
Twice(G(_, _), x) == G(G(x, 1), 2)

\* the two places where reallocate starts a collection: when the block grows
\* in a DEBUG_STRESS_GC build, and when bytesAllocated is above nextGC
\* reallocate with no test of the threshold: only the stress build collects
reallocateUntested(s, oldSize, newSize) ==
    IF newSize > oldSize /\ s.mode = "stress"
    THEN collectGarbage([s EXCEPT !.vm.bytesAllocated = @ + newSize - oldSize])
    ELSE [s EXCEPT !.vm.bytesAllocated = @ + newSize - oldSize]
reallocate(s, oldSize, newSize) ==
    Twice(LAMBDA x, i :
              IF \/ i = 1 /\ newSize > oldSize /\ x.mode = "stress"
                 \/ i = 2 /\ x.vm.bytesAllocated > x.vm.nextGC /\ x.mode # "none"
              THEN collectGarbage(x)
              ELSE x,
          [s EXCEPT !.vm.bytesAllocated = @ + newSize - oldSize])

(***************************************************************************)
(* table.c: the operations that allocate                                   *)
(***************************************************************************)
\* the loop of adjustCapacity that re-inserts the entries of the old array
rehash(h, old, capacity, x, i) ==
    IF old[i].key = 0 THEN x
    ELSE LET dest == findEntry(h, x.entries, capacity, old[i].key) IN
         [entries |-> [x.entries EXCEPT ![dest + 1] = old[i]], count |-> x.count + 1]
rehashAll(h, old, capacity) ==
    For16(LAMBDA x, i : rehash(h, old, capacity, x, i),
          [entries |-> [i \in 1..capacity |-> [key |-> 0, value |-> NIL_VAL]], count |-> 0],
          1, Len(old))

\* the end of adjustCapacity: table->count is already the new count while the
\* old array is released, and only then do entries and capacity change
swapEntries(s, r, old, capacity, re) ==
    Run3(s,
         LAMBDA x : SetT([x EXCEPT !.ub = @ \/ \E i \in DOMAIN old.entries :
                                                  /\ old.entries[i].key # 0
                                                  /\ ~Live(x, old.entries[i].key)],
                         r, [old EXCEPT !.count = re.count]),
         LAMBDA x : reallocate(x, SizeOf("Entry") * old.capacity, 0),
         LAMBDA x : SetT(x, r, [count |-> re.count, capacity |-> capacity,
                                entries |-> re.entries]))
moveEntries(s, r, capacity) ==
    swapEntries(s, r, GetT(s, r), capacity, rehashAll(s.heap, GetT(s, r).entries, capacity))

\* history: the table as adjustCapacity finds it, which of its keys the roots
\* reach, and the table as adjustCapacity leaves it
growing(s, r) ==
    [s EXCEPT !.grown = Append(@, [r |-> r, before |-> GetT(s, r), after |-> GetT(s, r),
                                   reach |-> Reachable(s) \cap KeysOf(GetT(s, r))])]
grownTo(s, r) == [s EXCEPT !.grown[Len(s.grown)].after = GetT(s, r)]
adjustCapacity(s, r, capacity) ==
    Run3(s, LAMBDA x : reallocate(growing(x, r), 0, SizeOf("Entry") * capacity),
         LAMBDA x : moveEntries(x, r, capacity),
         LAMBDA x : grownTo(x, r))

TABLE_MAX_LOAD_NUM == 3
TABLE_MAX_LOAD_DEN == 4

\* tableSet once the array is large enough
setEntry(s, r, key, value) ==
    LET table == GetT(s, r)
        index == findEntry(s.heap, table.entries, table.capacity, key)
        entry == table.entries[index + 1]
        isNewKey == entry.key = 0
        count == IF isNewKey /\ IS_NIL(entry.value) THEN table.count + 1 ELSE table.count
    IN  [SetT(Touch(s, key), r,
              [table EXCEPT !.count = count,
                            !.entries[index + 1] = [key |-> key, value |-> value]])
            EXCEPT !.flag = isNewKey]

\* tableSet growing the array one entry late: when count, not count + 1, is
\* over the load
tableSetLate(s, r, key, value) ==
    Run2(s,
         LAMBDA x : IF \/ GetT(x, r).capacity = 0
                       \/ GetT(x, r).count * TABLE_MAX_LOAD_DEN
                              > GetT(x, r).capacity * TABLE_MAX_LOAD_NUM
                    THEN adjustCapacity(x, r, GROW_CAPACITY(GetT(x, r).capacity))
                    ELSE x,
         LAMBDA x : setEntry(x, r, key, value))

tableSet(s, r, key, value) ==
    Run2(s,
         LAMBDA x : IF (GetT(x, r).count + 1) * TABLE_MAX_LOAD_DEN
                          > GetT(x, r).capacity * TABLE_MAX_LOAD_NUM
                    THEN adjustCapacity(x, r, GROW_CAPACITY(GetT(x, r).capacity))
                    ELSE x,
         LAMBDA x : setEntry(x, r, key, value))

addAll(s, from, to, i) ==
    LET entry == GetT(s, from).entries[i + 1] IN
    IF entry.key # 0 THEN tableSet(s, to, entry.key, entry.value) ELSE s
\* tableAddAll with its two tables taken in the other order
tableAddAllBack(s, from, to) ==
    For16(LAMBDA x, i : addAll(x, to, from, i), s, 0, GetT(s, to).capacity - 1)
tableAddAll(s, from, to) ==
    For16(LAMBDA x, i : addAll(x, from, to, i), s, 0, GetT(s, from).capacity - 1)

(***************************************************************************)
(* object.c                                                                *)
(***************************************************************************)
\* the new object heads the list vm.objects; its mark bit is clear
link(s, cell) ==
    [s EXCEPT !.heap = Append(@, [cell EXCEPT !.next = s.vm.objects]),
              !.vm.objects = Len(s.heap) + 1,
              !.ret = Len(s.heap) + 1]
allocateObject(s, size, cell) ==
    Run2(s, LAMBDA x : reallocate(x, 0, size), LAMBDA x : link(x, cell))

\* tableSet(&vm.strings, string, NIL_VAL); return string
intern(s) ==
    Run2(s, LAMBDA x : tableSet(x, TableRef("strings", 0), x.ret, NIL_VAL),
         LAMBDA x : [x EXCEPT !.ret = s.ret])
allocateString(s, chars, hash) ==
    Run2(s, LAMBDA x : allocateObject(x, SizeOf("string"), StringCell(chars, hash)), intern)

\* tableFindString(&vm.strings, chars, length, hash)
findInterned(s, chars, hash) ==
    LET interned == tableFindString(s, s.vm.strings, chars, hash) IN
    [s EXCEPT !.ub = @ \/ interned.ub, !.ret = interned.ret]

takeHashed(s, chars, hash) ==
    Run2(s, LAMBDA x : findInterned(x, chars, hash),
         LAMBDA x : IF x.ret # 0
                    THEN Run2(x, LAMBDA y : reallocate(y, SizeOf("char") * (Len(chars) + 1), 0),
                              LAMBDA y : [y EXCEPT !.ret = x.ret])
                    ELSE allocateString(x, chars, hash))
takeString(s, chars) == takeHashed(s, chars, hashString(chars))

copyHashed(s, chars, hash) ==
    Run2(s, LAMBDA x : findInterned(x, chars, hash),
         LAMBDA x : IF x.ret # 0
                    THEN x
                    ELSE Run2(x, LAMBDA y : reallocate(y, 0, SizeOf("char") * (Len(chars) + 1)),
                              LAMBDA y : allocateString(y, chars, hash)))
copyString(s, chars) == copyHashed(s, chars, hashString(chars))

\* The constructors of the other object variants
newFunction(s) == allocateObject(s, SizeOf("function"), FunctionCell)
newNative(s) == allocateObject(s, SizeOf("native"), NativeCell)
newClosure(s, function) ==
    Run2(Touch(s, function),
         LAMBDA x : reallocate(x, 0, SizeOf("ptr") * x.heap[function].upvalueCount),
         LAMBDA x : allocateObject(x, SizeOf("closure"),
                                   ClosureCell(function, x.heap[function].upvalueCount)))
newUpvalue(s, slot) == allocateObject(s, SizeOf("upvalue"), UpvalueCell(slot))
newClass(s, name) == allocateObject(s, SizeOf("class"), ClassCell(name))
newInstance(s, klass) == allocateObject(s, SizeOf("instance"), InstanceCell(klass))
newBoundMethod(s, receiver, method) ==
    allocateObject(s, SizeOf("bound"), BoundMethodCell(receiver, method))

(***************************************************************************)
(* vm.c: the helpers of the interpreter                                    *)
(***************************************************************************)
\* resetStack without its last assignment: the open upvalues stay listed
resetTop(s) ==
    [s EXCEPT !.vm.stackTop = 0, !.vm.frames = <<>>]
resetStack(s) ==
    [s EXCEPT !.vm.stackTop = 0, !.vm.frames = <<>>, !.vm.openUpvalues = 0]

\* push has no bounds check: a write at or above STACK_MAX lands in the memory
\* behind the array (undefined behaviour); beyond the red zone only the crash
\* is modelled.
push(s, value) ==
    IF s.vm.stackTop < StackSlots
    THEN [s EXCEPT !.vm.stack[s.vm.stackTop] = value,
                   !.vm.stackTop = @ + 1,
                   !.ub = @ \/ s.vm.stackTop >= STACK_MAX]
    ELSE [s EXCEPT !.ub = TRUE, !.fatal = TRUE]

pop(s) == [s EXCEPT !.vm.stackTop = @ - 1]
\* push(OBJ_VAL(object)) of the object a call has just returned
pushRet(s) == push(s, OBJ_VAL(s.ret))
peek(s, distance) == s.vm.stack[s.vm.stackTop - 1 - distance]

\* IS_INSTANCE, IS_CLASS, IS_STRING...: isObjType reads the object's type
isObjType(s, value, type) == IS_OBJ(value) /\ s.heap[value.v].type = type
TouchValue(s, value) == IF IS_OBJ(value) THEN Touch(s, value.v) ELSE s

\* runtimeError prints the message and the trace, reading every frame's
\* function, and resets the stack; s.err records that it was called.
RECURSIVE traceFrom(_, _)
traceFrom(s, i) ==
    IF i < 1 THEN s
    ELSE LET closure == s.vm.frames[i].closure IN
         traceFrom(Touch(Touch(s, closure), s.heap[closure].function), i - 1)
runtimeError(s) ==
    [resetStack(traceFrom(s, Len(s.vm.frames))) EXCEPT !.err = TRUE]

\* call: callDepth and argCount of the frame are history (the operand-stack
\* depth and the argument count at the call), never read by the interpreter.
call(s, closure, argCount) ==
    LET s0 == Touch(Touch(s, closure), s.heap[closure].function)
        function == s0.heap[s0.heap[closure].function]
    IN  IF argCount # function.arity
        THEN [runtimeError(s0) EXCEPT !.flag = FALSE]
        ELSE IF Len(s0.vm.frames) = FRAMES_MAX
        THEN [runtimeError(s0) EXCEPT !.flag = FALSE]
        ELSE [s0 EXCEPT !.vm.frames = Append(@, [closure |-> closure, ip |-> 1,
                                                 slots |-> s0.vm.stackTop - argCount - 1,
                                                 callDepth |-> s0.vm.stackTop,
                                                 argCount |-> argCount]),
                        !.flag = TRUE]

\* clockNative: the clock reads 0 in every run
clockNative == NUMBER_VAL(0)

\* callValue on a class, once the instance is allocated (s.ret)
construct(s, klass, argCount) ==
    LET s2 == [s EXCEPT !.vm.stack[s.vm.stackTop - argCount - 1] = OBJ_VAL(s.ret)]
        initializer == tableGet(s2, s2.heap[klass].methods, s2.vm.initString)
        s3 == [Touch(s2, klass) EXCEPT !.ub = @ \/ initializer.ub]
    IN  IF initializer.found
        THEN call(s3, initializer.value.v, argCount)
        ELSE IF argCount # 0
        THEN [runtimeError(s3) EXCEPT !.flag = FALSE]
        ELSE [s3 EXCEPT !.flag = TRUE]

callValue(s, callee, argCount) ==
    LET s0 == TouchValue(s, callee)
        type == IF IS_OBJ(callee) THEN s0.heap[callee.v].type ELSE "none"
    IN  CASE type = "bound" ->
               LET bound == s0.heap[callee.v] IN
               call([s0 EXCEPT !.vm.stack[s0.vm.stackTop - argCount - 1] = bound.receiver],
                    bound.method, argCount)
          [] type = "class" -> Run2(s0, LAMBDA x : newInstance(x, callee.v),
                                    LAMBDA x : construct(x, callee.v, argCount))
          [] type = "closure" -> call(s0, callee.v, argCount)
          [] type = "native" ->
               [push([s0 EXCEPT !.vm.stackTop = @ - (argCount + 1)], clockNative)
                   EXCEPT !.flag = TRUE]
          [] OTHER -> [runtimeError(s0) EXCEPT !.flag = FALSE]

invokeFromClass(s, klass, name, argCount) ==
    LET method == tableGet(s, s.heap[klass].methods, name)
        s0 == [Touch(s, klass) EXCEPT !.ub = @ \/ method.ub]
    IN  IF ~method.found
        THEN [runtimeError(s0) EXCEPT !.flag = FALSE]
        ELSE call(s0, method.value.v, argCount)

\* invoke without the lookup among the fields of the instance
invokeMethod(s, name, argCount) ==
    LET receiver == peek(s, argCount)
        s0 == TouchValue(s, receiver)
    IN  IF ~isObjType(s0, receiver, "instance")
        THEN [runtimeError(s0) EXCEPT !.flag = FALSE]
        ELSE invokeFromClass(s0, s0.heap[receiver.v].klass, name, argCount)

invoke(s, name, argCount) ==
    LET receiver == peek(s, argCount)
        s0 == TouchValue(s, receiver)
    IN  IF ~isObjType(s0, receiver, "instance")
        THEN [runtimeError(s0) EXCEPT !.flag = FALSE]
        ELSE LET instance == s0.heap[receiver.v]
                 field == tableGet(s0, instance.fields, name)
                 s1 == [s0 EXCEPT !.ub = @ \/ field.ub]
             IN  IF field.found
                 THEN callValue([s1 EXCEPT !.vm.stack[s1.vm.stackTop - argCount - 1] = field.value],
                                field.value, argCount)
                 ELSE invokeFromClass(s1, instance.klass, name, argCount)

bindMethod(s, klass, name) ==
    LET method == tableGet(s, s.heap[klass].methods, name)
        s0 == [Touch(s, klass) EXCEPT !.ub = @ \/ method.ub]
    IN  IF ~method.found
        THEN [runtimeError(s0) EXCEPT !.flag = FALSE]
        ELSE Run2(s0, LAMBDA x : newBoundMethod(x, peek(x, 0), method.value.v),
                  LAMBDA x : [pushRet(pop(x)) EXCEPT !.flag = TRUE])

RECURSIVE findOpen(_, _, _, _)
findOpen(h, prevUpvalue, upvalue, local) ==
    IF upvalue # 0 /\ h[upvalue].location > local
    THEN findOpen(h, upvalue, h[upvalue].nextUpvalue, local)
    ELSE [prevUpvalue |-> prevUpvalue, upvalue |-> upvalue]

\* the created upvalue (s.ret) goes between prevUpvalue and upvalue
insertUpvalue(s, f) ==
    IF f.prevUpvalue = 0
    THEN [s EXCEPT !.heap[s.ret].nextUpvalue = f.upvalue, !.vm.openUpvalues = s.ret]
    ELSE [s EXCEPT !.heap[s.ret].nextUpvalue = f.upvalue,
                   !.heap[f.prevUpvalue].nextUpvalue = s.ret]

\* captureUpvalue without the test for an upvalue already open on the slot
captureUpvalueAnew(s, local) ==
    Run2(s, LAMBDA x : newUpvalue(x, local),
         LAMBDA x : insertUpvalue(x, findOpen(s.heap, 0, s.vm.openUpvalues, local)))

captureUpvalue(s, local) ==
    LET f == findOpen(s.heap, 0, s.vm.openUpvalues, local) IN
    IF f.upvalue # 0 /\ s.heap[f.upvalue].location = local
    THEN [s EXCEPT !.ret = f.upvalue]
    ELSE Run2(s, LAMBDA x : newUpvalue(x, local), LAMBDA x : insertUpvalue(x, f))

\* closeUpvalues with upvalue->closed = *last where the source has
\* *upvalue->location
RECURSIVE closeFromLast(_, _)
closeFromLast(s, lastSlot) ==
    IF s.vm.openUpvalues # 0 /\ s.heap[s.vm.openUpvalues].location >= lastSlot
    THEN LET upvalue == s.vm.openUpvalues
             cell == s.heap[upvalue]
         IN  closeFromLast([Touch(s, upvalue) EXCEPT
                                !.heap[upvalue].closed = s.vm.stack[lastSlot],
                                !.heap[upvalue].location = -1,
                                !.vm.openUpvalues = cell.nextUpvalue],
                           lastSlot)
    ELSE s

RECURSIVE closeUpvalues(_, _)
closeUpvalues(s, lastSlot) ==
    IF s.vm.openUpvalues # 0 /\ s.heap[s.vm.openUpvalues].location >= lastSlot
    THEN LET upvalue == s.vm.openUpvalues
             cell == s.heap[upvalue]
         IN  closeUpvalues([Touch(s, upvalue) EXCEPT
                                !.heap[upvalue].closed = s.vm.stack[cell.location],
                                !.heap[upvalue].location = -1,
                                !.vm.openUpvalues = cell.nextUpvalue],
                           lastSlot)
    ELSE s

defineMethod(s, name) ==
    LET method == peek(s, 0)
        klass == peek(s, 1).v
    IN  Run2(s, LAMBDA x : tableSet(x, TableRef("methods", klass), name, method), pop)

isFalsey(value) == IS_NIL(value) \/ (IS_BOOL(value) /\ value.v = 0)

concatenate(s) ==
    LET b == s.heap[peek(s, 0).v]
        a == s.heap[peek(s, 1).v]
        chars == a.chars \o b.chars
    IN  Run3(Touch(Touch(s, peek(s, 0).v), peek(s, 1).v),
             LAMBDA x : reallocate(x, 0, SizeOf("char") * (Len(chars) + 1)),
             LAMBDA x : takeString(x, chars),
             LAMBDA x : pushRet(pop(pop(x))))

\* tableSet(&vm.globals, AS_STRING(vm.stack[0]), vm.stack[1])
setNative(s) ==
    Run2(s, LAMBDA x : tableSet(x, TableRef("globals", 0), x.vm.stack[0].v, x.vm.stack[1]),
         LAMBDA x : pop(pop(x)))
defineNative(s, name) ==
    Run5(s, LAMBDA x : copyString(x, name), pushRet, newNative, pushRet, setNative)

S_init == <<105, 110, 105, 116>>
S_clock == <<99, 108, 111, 99, 107>>
FIRST_GC == 1024

\* vm.initString = copyString("init", 4), the assignment, and the gray stack
setInitString(s) == [s EXCEPT !.vm.initString = s.ret, !.vm.grayStack = <<>>]
\* freeObjects: every object of the allocation list is freed; the list head
\* is left as it is
freeObjects(s) ==
    While32(LAMBDA x : x.object # 0,
            LAMBDA x : [s |-> freeObject(Touch(x.s, x.object), x.object),
                        object |-> x.s.heap[x.object].next],
            [s |-> s, object |-> s.vm.objects]).s
freeStrings(s) == [freeTable(s, TableRef("strings", 0)) EXCEPT !.vm.initString = 0]
freeVM(s) ==
    Run3(s, freeStrings, LAMBDA x : freeTable(x, TableRef("globals", 0)), freeObjects)

initVM(s) ==
    Run3([resetStack(s) EXCEPT !.vm.objects = 0,
                               !.vm.bytesAllocated = 0,
                               !.vm.nextGC = FIRST_GC,
                               !.vm.globals = initTable,
                               !.vm.strings = initTable,
                               !.vm.initString = 0],
         LAMBDA x : copyString(x, S_init),
         setInitString,
         LAMBDA x : defineNative(x, S_clock))

(***************************************************************************)
(* vm.c: run().  An instruction is [op, a, b, uv]: its opcode, its operand *)
(* bytes and, for CLOSURE, the (isLocal, index) pairs.  Constants are      *)
(* numbered from 1, stack slots from 0, and jump offsets count             *)
(* instructions.  Each handler gets the state after the opcode and its     *)
(* operands were read (ip advanced), as in the source.                     *)
(***************************************************************************)
Frame(s) == s.vm.frames[Len(s.vm.frames)]
FrameFunction(s) == s.heap[s.heap[Frame(s).closure].function]
READ_CONSTANT(s, i) == FrameFunction(s).constants[i]
READ_STRING(s, i) == READ_CONSTANT(s, i).v
Instruction(s) == FrameFunction(s).code[Frame(s).ip]
READ_BYTE(s) ==
    LET closure == Frame(s).closure IN
    [Touch(Touch(s, closure), s.heap[closure].function)
        EXCEPT !.vm.frames[Len(s.vm.frames)].ip = @ + 1]
Jump(s, offset) == [s EXCEPT !.vm.frames[Len(s.vm.frames)].ip = @ + offset]
RUNTIME_ERROR(s) == [s EXCEPT !.status = "RUNTIME_ERROR"]
\* if (!f(...)) return INTERPRET_RUNTIME_ERROR;
OrError(s) == IF ~s.flag THEN RUNTIME_ERROR(s) ELSE s

\* printValue: what PRINT writes for a value
Repr(s, value) ==
    LET Name(a) == IF a = 0 THEN <<>> ELSE s.heap[a].chars
        cell == s.heap[value.v]
    IN  CASE value.t = "nil" -> [k |-> "nil", n |-> 0, c |-> <<>>]
          [] value.t = "bool" -> [k |-> "bool", n |-> value.v, c |-> <<>>]
          [] value.t = "num" -> [k |-> "num", n |-> value.v, c |-> <<>>]
          [] OTHER ->
             CASE cell.type = "string" -> [k |-> "string", n |-> 0, c |-> cell.chars]
               [] cell.type = "function" -> [k |-> "fn", n |-> 0, c |-> Name(cell.name)]
               [] cell.type = "closure" ->
                    [k |-> "fn", n |-> 0, c |-> Name(s.heap[cell.function].name)]
               [] cell.type = "bound" ->
                    [k |-> "fn", n |-> 0, c |-> Name(s.heap[s.heap[cell.method].function].name)]
               [] cell.type = "class" -> [k |-> "class", n |-> 0, c |-> Name(cell.name)]
               [] cell.type = "instance" ->
                    [k |-> "instance", n |-> 0, c |-> Name(s.heap[cell.klass].name)]
               [] OTHER -> [k |-> cell.type, n |-> 0, c |-> <<>>]

opConstant(s, i) == push(s, READ_CONSTANT(s, i.a))
opNil(s, i) == push(s, NIL_VAL)
opTrue(s, i) == push(s, BOOL_VAL(TRUE))
opFalse(s, i) == push(s, BOOL_VAL(FALSE))
opPop(s, i) == pop(s)
opGetLocal(s, i) == push(s, s.vm.stack[Frame(s).slots + i.a])
\* SET_LOCAL taking its value with pop() where the source has peek(0)
opSetLocalPop(s, i) == [pop(s) EXCEPT !.vm.stack[Frame(s).slots + i.a] = peek(s, 0)]
opSetLocal(s, i) == [s EXCEPT !.vm.stack[Frame(s).slots + i.a] = peek(s, 0)]

opDefineGlobal(s, i) ==
    pop(tableSet(s, TableRef("globals", 0), READ_STRING(s, i.a), peek(s, 0)))

\* SET_GLOBAL after its tableSet: a new key means the variable was undefined
\* the variable stays in the table: the error without the tableDelete
undefineKept(s, name) ==
    IF s.flag THEN RUNTIME_ERROR(runtimeError(s)) ELSE s
undefine(s, name) ==
    IF s.flag
    THEN LET d == tableDelete(s, s.vm.globals, name) IN
         RUNTIME_ERROR(runtimeError([s EXCEPT !.vm.globals = d.table, !.ub = @ \/ d.ub]))
    ELSE s
opSetGlobal(s, i) ==
    undefine(tableSet(s, TableRef("globals", 0), READ_STRING(s, i.a), peek(s, 0)),
             READ_STRING(s, i.a))

opGetGlobal(s, i) ==
    LET name == READ_STRING(s, i.a)
        g == tableGet(s, s.vm.globals, name)
        s1 == [s EXCEPT !.ub = @ \/ g.ub]
    IN  IF ~g.found THEN RUNTIME_ERROR(runtimeError(s1)) ELSE push(s1, g.value)

\* Value value = pop(); pop(); push(value);
dropInstance(s) ==
    push(pop(pop(s)), peek(s, 0))
opSetProperty(s, i) ==
    LET s0 == TouchValue(s, peek(s, 1)) IN
    IF ~isObjType(s0, peek(s0, 1), "instance")
    THEN RUNTIME_ERROR(runtimeError(s0))
    ELSE dropInstance(tableSet(s0, TableRef("fields", peek(s0, 1).v),
                               READ_STRING(s0, i.a), peek(s0, 0)))

opGetProperty(s, i) ==
    LET s0 == TouchValue(s, peek(s, 0)) IN
    IF ~isObjType(s0, peek(s0, 0), "instance")
    THEN RUNTIME_ERROR(runtimeError(s0))
    ELSE LET instance == s0.heap[peek(s0, 0).v]
             name == READ_STRING(s0, i.a)
             field == tableGet(s0, instance.fields, name)
             s1 == [s0 EXCEPT !.ub = @ \/ field.ub]
         IN  IF field.found
             THEN push(pop(s1), field.value)
             ELSE OrError(bindMethod(s1, instance.klass, name))

opGetSuper(s, i) == OrError(bindMethod(pop(s), peek(s, 0).v, READ_STRING(s, i.a)))

opEqual(s, i) ==
    LET b == peek(s, 0)
        a == peek(s, 1)
    IN  push(pop(pop(s)), BOOL_VAL(valuesEqual(a, b)))

\* *frame->closure->upvalues[slot]->location
Upvalue(s, slot) == s.heap[Frame(s).closure].upvalues[slot + 1]
opSetUpvalue(s, i) ==
    LET upvalue == Upvalue(s, i.a)
        s0 == Touch(s, upvalue)
    IN  IF s0.heap[upvalue].location >= 0
        THEN [s0 EXCEPT !.vm.stack[s0.heap[upvalue].location] = peek(s, 0)]
        ELSE [s0 EXCEPT !.heap[upvalue].closed = peek(s, 0)]
opGetUpvalue(s, i) ==
    LET upvalue == Upvalue(s, i.a)
        s0 == Touch(s, upvalue)
    IN  IF s0.heap[upvalue].location >= 0
        THEN push(s0, s0.vm.stack[s0.heap[upvalue].location])
        ELSE push(s0, s0.heap[upvalue].closed)

\* Numbers are integers here; the programs divide exactly.
Arith(op, a, b) ==
    CASE op = "GREATER" -> BOOL_VAL(a > b)
      [] op = "LESS" -> BOOL_VAL(a < b)
      [] op = "SUBTRACT" -> NUMBER_VAL(a - b)
      [] op = "MULTIPLY" -> NUMBER_VAL(a * b)
      [] op = "DIVIDE" -> NUMBER_VAL(IF b = 0 THEN 0 ELSE a \div b)

BINARY_OP(s, i) ==
    IF ~IS_NUMBER(peek(s, 0)) \/ ~IS_NUMBER(peek(s, 1))
    THEN RUNTIME_ERROR(runtimeError(s))
    ELSE LET b == peek(s, 0).v
             a == peek(s, 1).v
         IN  push(pop(pop(s)), Arith(i.op, a, b))

opAdd(s, i) ==
    LET s0 == TouchValue(TouchValue(s, peek(s, 0)), peek(s, 1)) IN
    IF isObjType(s0, peek(s0, 0), "string") /\ isObjType(s0, peek(s0, 1), "string")
    THEN concatenate(s0)
    ELSE IF IS_NUMBER(peek(s0, 0)) /\ IS_NUMBER(peek(s0, 1))
    THEN push(pop(pop(s0)), NUMBER_VAL(peek(s0, 1).v + peek(s0, 0).v))
    ELSE RUNTIME_ERROR(runtimeError(s0))

opNot(s, i) == push(pop(s), BOOL_VAL(isFalsey(peek(s, 0))))

opNegate(s, i) ==
    IF ~IS_NUMBER(peek(s, 0))
    THEN RUNTIME_ERROR(runtimeError(s))
    ELSE push(pop(s), NUMBER_VAL(0 - peek(s, 0).v))

opPrint(s, i) ==
    [pop(TouchValue(s, peek(s, 0))) EXCEPT !.out = Append(@, Repr(s, peek(s, 0)))]

opJump(s, i) == Jump(s, i.a)
opJumpIfFalse(s, i) == IF isFalsey(peek(s, 0)) THEN Jump(s, i.a) ELSE s
opLoop(s, i) == Jump(s, 0 - i.a)

opCall(s, i) == OrError(callValue(s, peek(s, i.a), i.a))

opInvoke(s, i) == OrError(invoke(s, READ_STRING(s, i.a), i.b))

opSuperInvoke(s, i) ==
    OrError(invokeFromClass(pop(s), peek(s, 0).v, READ_STRING(s, i.a), i.b))

\* closure->upvalues[n] = ...: the closure is the value on top of the stack
setUpvalue(s, n, upvalue) == [s EXCEPT !.heap[peek(s, 0).v].upvalues[n] = upvalue]
setCaptured(s, n) == setUpvalue(s, n, s.ret)
capture(s, uv, n) ==
    IF uv[n].isLocal
    THEN setCaptured(captureUpvalue(s, Frame(s).slots + uv[n].index), n)
    ELSE setUpvalue(s, n, s.heap[Frame(s).closure].upvalues[uv[n].index + 1])

opClosure(s, i) ==
    For8(LAMBDA x, n : capture(x, i.uv, n),
         pushRet(newClosure(s, READ_CONSTANT(s, i.a).v)), 1, Len(i.uv))

opClass(s, i) == pushRet(newClass(s, READ_STRING(s, i.a)))

opMethod(s, i) == defineMethod(s, READ_STRING(s, i.a))

opInherit(s, i) ==
    LET superclass == peek(s, 1)
        s0 == TouchValue(s, superclass)
    IN  IF ~isObjType(s0, superclass, "class")
        THEN RUNTIME_ERROR(runtimeError(s0))
        ELSE LET subclass == peek(s0, 0).v IN
             pop(tableAddAll(s0, TableRef("methods", superclass.v),
                             TableRef("methods", subclass)))

\* CLOSE_UPVALUE closing from the slot below the one it pops
opCloseUpvalueBelow(s, i) == pop(closeUpvalues(s, s.vm.stackTop - 2))
opCloseUpvalue(s, i) == pop(closeUpvalues(s, s.vm.stackTop - 1))

\* RETURN without vm.stackTop = frame->slots
opReturnAbove(s, i) ==
    LET result == peek(s, 0)
        frame == Frame(s)
        s1 == closeUpvalues(pop(s), frame.slots)
        s2 == [s1 EXCEPT !.vm.frames = SubSeq(@, 1, Len(@) - 1)]
    IN  IF Len(s2.vm.frames) = 0
        THEN [pop(s2) EXCEPT !.status = "OK"]
        ELSE push(s2, result)

\* RETURN closing the upvalues from the frame's third slot only
opReturnLate(s, i) ==
    LET result == peek(s, 0)
        frame == Frame(s)
        s1 == closeUpvalues(pop(s), frame.slots + 2)
        s2 == [s1 EXCEPT !.vm.frames = SubSeq(@, 1, Len(@) - 1)]
    IN  IF Len(s2.vm.frames) = 0
        THEN [pop(s2) EXCEPT !.status = "OK"]
        ELSE push([s2 EXCEPT !.vm.stackTop = frame.slots], result)

opReturn(s, i) ==
    LET result == peek(s, 0)
        frame == Frame(s)
        s1 == closeUpvalues(pop(s), frame.slots)
        s2 == [s1 EXCEPT !.vm.frames = SubSeq(@, 1, Len(@) - 1)]
    IN  IF Len(s2.vm.frames) = 0
        THEN [pop(s2) EXCEPT !.status = "OK"]
        ELSE push([s2 EXCEPT !.vm.stackTop = frame.slots], result)

(***************************************************************************)
(* The programs: what compile() hands to the runtime.  A program is the    *)
(* sequence of its functions, the script first; a function is its name     *)
(* (empty for the script), arity, upvalue count, constants and code.       *)
(***************************************************************************)
I0(op) == [op |-> op, a |-> 0, b |-> 0, uv |-> <<>>]
I1(op, a) == [op |-> op, a |-> a, b |-> 0, uv |-> <<>>]
I2(op, a, b) == [op |-> op, a |-> a, b |-> b, uv |-> <<>>]
CL(a, uv) == [op |-> "CLOSURE", a |-> a, b |-> 0, uv |-> uv]
Local(index) == [isLocal |-> TRUE, index |-> index]
Outer(index) == [isLocal |-> FALSE, index |-> index]
KNum(n) == [k |-> "num", n |-> n, c |-> <<>>]
KStr(c) == [k |-> "str", n |-> 0, c |-> c]
KFn(n) == [k |-> "fn", n |-> n, c |-> <<>>]
Fn(name, arity, upvalueCount, constants, code) ==
    [name |-> name, arity |-> arity, upvalueCount |-> upvalueCount,
     constants |-> constants, code |-> code]

\* var i = 0; while (i < 2) { print i; i = i + 1; }
\* print -(6 / 2) == 1 - 4; print !(2 > 1); print 1 + 2 * 3;
\* if (true) print 1; else print 2;
ProgArith ==
    << Fn(<<>>, 0, 0,
          <<KNum(0), KStr(<<105>>), KNum(2), KNum(1), KNum(6), KNum(3), KNum(4)>>,
          <<I1("CONSTANT", 1), I1("DEFINE_GLOBAL", 2),
            I1("GET_GLOBAL", 2), I1("CONSTANT", 3), I0("LESS"), I1("JUMP_IF_FALSE", 9),
            I0("POP"), I1("GET_GLOBAL", 2), I0("PRINT"),
            I1("GET_GLOBAL", 2), I1("CONSTANT", 4), I0("ADD"), I1("SET_GLOBAL", 2), I0("POP"),
            I1("LOOP", 13), I0("POP"),
            I1("CONSTANT", 5), I1("CONSTANT", 3), I0("DIVIDE"), I0("NEGATE"),
            I1("CONSTANT", 4), I1("CONSTANT", 7), I0("SUBTRACT"), I0("EQUAL"), I0("PRINT"),
            I1("CONSTANT", 3), I1("CONSTANT", 4), I0("GREATER"), I0("NOT"), I0("PRINT"),
            I1("CONSTANT", 4), I1("CONSTANT", 3), I1("CONSTANT", 6), I0("MULTIPLY"), I0("ADD"),
            I0("PRINT"),
            I0("TRUE"), I1("JUMP_IF_FALSE", 4), I0("POP"), I1("CONSTANT", 4), I0("PRINT"),
            I1("JUMP", 3), I0("POP"), I1("CONSTANT", 3), I0("PRINT"),
            I0("FALSE"), I0("POP"),
            I0("NIL"), I0("RETURN")>>) >>

\* fun k() { var x = 1; fun i() { x = x + 1; return x; } return i; }
\* var f = k(); print f(); print f();
ProgClosure ==
    << Fn(<<>>, 0, 0,
          <<KFn(2), KStr(<<107>>), KStr(<<102>>)>>,
          <<CL(1, <<>>), I1("DEFINE_GLOBAL", 2), I1("GET_GLOBAL", 2), I1("CALL", 0),
            I1("DEFINE_GLOBAL", 3), I1("GET_GLOBAL", 3), I1("CALL", 0), I0("PRINT"),
            I1("GET_GLOBAL", 3), I1("CALL", 0), I0("PRINT"), I0("NIL"), I0("RETURN")>>),
       Fn(<<107>>, 0, 0,
          <<KNum(1), KFn(3)>>,
          <<I1("CONSTANT", 1), CL(2, <<Local(1)>>), I1("GET_LOCAL", 2), I0("RETURN")>>),
       Fn(<<105>>, 0, 1,
          <<KNum(1)>>,
          <<I1("GET_UPVALUE", 0), I1("CONSTANT", 1), I0("ADD"), I1("SET_UPVALUE", 0), I0("POP"),
            I1("GET_UPVALUE", 0), I0("RETURN")>>) >>

\* var h; { var a = 1; fun g() { a = a + 1; return a; } fun r() { return a; }
\*          print g(); a = 5; print r(); print g(); print a; h = g; }
\* print h();
ProgOpenUpvalue ==
    << Fn(<<>>, 0, 0,
          <<KStr(<<104>>), KNum(1), KFn(2), KFn(3), KNum(5)>>,
          <<I0("NIL"), I1("DEFINE_GLOBAL", 1),
            I1("CONSTANT", 2), CL(3, <<Local(1)>>), CL(4, <<Local(1)>>),
            I1("GET_LOCAL", 2), I1("CALL", 0), I0("PRINT"),
            I1("CONSTANT", 5), I1("SET_LOCAL", 1), I0("POP"),
            I1("GET_LOCAL", 3), I1("CALL", 0), I0("PRINT"),
            I1("GET_LOCAL", 2), I1("CALL", 0), I0("PRINT"),
            I1("GET_LOCAL", 1), I0("PRINT"),
            I1("GET_LOCAL", 2), I1("SET_GLOBAL", 1), I0("POP"),
            I0("POP"), I0("POP"), I0("CLOSE_UPVALUE"),
            I1("GET_GLOBAL", 1), I1("CALL", 0), I0("PRINT"),
            I0("NIL"), I0("RETURN")>>),
       Fn(<<103>>, 0, 1,
          <<KNum(1)>>,
          <<I1("GET_UPVALUE", 0), I1("CONSTANT", 1), I0("ADD"), I1("SET_UPVALUE", 0), I0("POP"),
            I1("GET_UPVALUE", 0), I0("RETURN")>>),
       Fn(<<114>>, 0, 1, <<>>, <<I1("GET_UPVALUE", 0), I0("RETURN")>>) >>

\* fun o() { var x = 1; fun d() { fun n() { return x; } return n; } return d; }
\* print o()()();
ProgNested ==
    << Fn(<<>>, 0, 0,
          <<KFn(2), KStr(<<111>>)>>,
          <<CL(1, <<>>), I1("DEFINE_GLOBAL", 2), I1("GET_GLOBAL", 2),
            I1("CALL", 0), I1("CALL", 0), I1("CALL", 0), I0("PRINT"), I0("NIL"), I0("RETURN")>>),
       Fn(<<111>>, 0, 0,
          <<KNum(1), KFn(3)>>,
          <<I1("CONSTANT", 1), CL(2, <<Local(1)>>), I1("GET_LOCAL", 2), I0("RETURN")>>),
       Fn(<<100>>, 0, 1,
          <<KFn(4)>>,
          <<CL(1, <<Outer(0)>>), I1("GET_LOCAL", 1), I0("RETURN")>>),
       Fn(<<110>>, 0, 1, <<>>, <<I1("GET_UPVALUE", 0), I0("RETURN")>>) >>

\* class A { init(v) { this.v = v; } w() { return this.v; } }
\* class B < A {}
\* print B(42).w();
ProgClass ==
    << Fn(<<>>, 0, 0,
          <<KStr(<<65>>), KFn(2), KStr(S_init), KFn(3), KStr(<<119>>), KStr(<<66>>), KNum(42)>>,
          <<I1("CLASS", 1), I1("DEFINE_GLOBAL", 1), I1("GET_GLOBAL", 1),
            CL(2, <<>>), I1("METHOD", 3), CL(4, <<>>), I1("METHOD", 5), I0("POP"),
            I1("CLASS", 6), I1("DEFINE_GLOBAL", 6), I1("GET_GLOBAL", 1), I1("GET_GLOBAL", 6),
            I0("INHERIT"), I1("GET_GLOBAL", 6), I0("POP"), I0("POP"),
            I1("GET_GLOBAL", 6), I1("CONSTANT", 7), I1("CALL", 1), I2("INVOKE", 5, 0),
            I0("PRINT"), I0("NIL"), I0("RETURN")>>),
       Fn(S_init, 1, 0,
          <<KStr(<<118>>)>>,
          <<I1("GET_LOCAL", 0), I1("GET_LOCAL", 1), I1("SET_PROPERTY", 1), I0("POP"),
            I1("GET_LOCAL", 0), I0("RETURN")>>),
       Fn(<<119>>, 0, 0,
          <<KStr(<<118>>)>>,
          <<I1("GET_LOCAL", 0), I1("GET_PROPERTY", 1), I0("RETURN")>>) >>

\* class A { m() { return 1; } }
\* class B < A { m() { return super.m() + 1; } n() { return super.m; } }
\* print B().m(); print B().n()();
ProgSuper ==
    << Fn(<<>>, 0, 0,
          <<KStr(<<65>>), KFn(2), KStr(<<109>>), KStr(<<66>>), KFn(3), KFn(4), KStr(<<110>>)>>,
          <<I1("CLASS", 1), I1("DEFINE_GLOBAL", 1), I1("GET_GLOBAL", 1),
            CL(2, <<>>), I1("METHOD", 3), I0("POP"),
            I1("CLASS", 4), I1("DEFINE_GLOBAL", 4), I1("GET_GLOBAL", 1), I1("GET_GLOBAL", 4),
            I0("INHERIT"), I1("GET_GLOBAL", 4),
            CL(5, <<Local(1)>>), I1("METHOD", 3), CL(6, <<Local(1)>>), I1("METHOD", 7),
            I0("POP"), I0("CLOSE_UPVALUE"),
            I1("GET_GLOBAL", 4), I1("CALL", 0), I2("INVOKE", 3, 0), I0("PRINT"),
            I1("GET_GLOBAL", 4), I1("CALL", 0), I2("INVOKE", 7, 0), I1("CALL", 0), I0("PRINT"),
            I0("NIL"), I0("RETURN")>>),
       Fn(<<109>>, 0, 0, <<KNum(1)>>, <<I1("CONSTANT", 1), I0("RETURN")>>),
       Fn(<<109>>, 0, 1,
          <<KStr(<<109>>), KNum(1)>>,
          <<I1("GET_LOCAL", 0), I1("GET_UPVALUE", 0), I2("SUPER_INVOKE", 1, 0),
            I1("CONSTANT", 2), I0("ADD"), I0("RETURN")>>),
       Fn(<<110>>, 0, 1,
          <<KStr(<<109>>)>>,
          <<I1("GET_LOCAL", 0), I1("GET_UPVALUE", 0), I1("GET_SUPER", 1), I0("RETURN")>>) >>

\* class C { m() { return "M"; } }
\* var c = C(); print c.m(); var b = c.m; c.m = "F"; print c.m; print b();
\* fun f() { return "G"; } c.m = f; print c.m();
ProgShadow ==
    << Fn(<<>>, 0, 0,
          <<KStr(<<67>>), KFn(2), KStr(<<109>>), KStr(<<99>>), KStr(<<98>>), KStr(<<70>>),
            KFn(3), KStr(<<102>>)>>,
          <<I1("CLASS", 1), I1("DEFINE_GLOBAL", 1), I1("GET_GLOBAL", 1),
            CL(2, <<>>), I1("METHOD", 3), I0("POP"),
            I1("GET_GLOBAL", 1), I1("CALL", 0), I1("DEFINE_GLOBAL", 4),
            I1("GET_GLOBAL", 4), I2("INVOKE", 3, 0), I0("PRINT"),
            I1("GET_GLOBAL", 4), I1("GET_PROPERTY", 3), I1("DEFINE_GLOBAL", 5),
            I1("GET_GLOBAL", 4), I1("CONSTANT", 6), I1("SET_PROPERTY", 3), I0("POP"),
            I1("GET_GLOBAL", 4), I1("GET_PROPERTY", 3), I0("PRINT"),
            I1("GET_GLOBAL", 5), I1("CALL", 0), I0("PRINT"),
            CL(7, <<>>), I1("DEFINE_GLOBAL", 8),
            I1("GET_GLOBAL", 4), I1("GET_GLOBAL", 8), I1("SET_PROPERTY", 3), I0("POP"),
            I1("GET_GLOBAL", 4), I2("INVOKE", 3, 0), I0("PRINT"),
            I0("NIL"), I0("RETURN")>>),
       Fn(<<109>>, 0, 0, <<KStr(<<77>>)>>, <<I1("CONSTANT", 1), I0("RETURN")>>),
       Fn(<<102>>, 0, 0, <<KStr(<<71>>)>>, <<I1("CONSTANT", 1), I0("RETURN")>>) >>

\* var a = "x" + "y"; print a == "xy"; print a + a; "x" + "x"; print "x" + "x";
\* print clock();
ProgStrings ==
    << Fn(<<>>, 0, 0,
          <<KStr(<<120>>), KStr(<<121>>), KStr(<<97>>), KStr(<<120, 121>>), KStr(S_clock)>>,
          <<I1("CONSTANT", 1), I1("CONSTANT", 2), I0("ADD"), I1("DEFINE_GLOBAL", 3),
            I1("GET_GLOBAL", 3), I1("CONSTANT", 4), I0("EQUAL"), I0("PRINT"),
            I1("GET_GLOBAL", 3), I1("GET_GLOBAL", 3), I0("ADD"), I0("PRINT"),
            I1("CONSTANT", 1), I1("CONSTANT", 1), I0("ADD"), I0("POP"),
            I1("CONSTANT", 1), I1("CONSTANT", 1), I0("ADD"), I0("PRINT"),
            I1("GET_GLOBAL", 5), I1("CALL", 0), I0("PRINT"),
            I0("NIL"), I0("RETURN")>>) >>

\* Hand-assembled: A gets methods after B has inherited from it, then B overrides m.
\* class A { m() { return 1; } }  class B < A {}
\*   A.m = { return 2; }  A.n = { return 2; }  print B().m();  print A().m();
\*   B.m = { return 3; }  print B().m();  print A().m();  print B().n();
ProgRebind ==
    << Fn(<<>>, 0, 0,
          <<KStr(<<65>>), KFn(2), KStr(<<109>>), KStr(<<66>>), KFn(3), KFn(4), KStr(<<110>>)>>,
          <<I1("CLASS", 1), I1("DEFINE_GLOBAL", 1), I1("GET_GLOBAL", 1),
            CL(2, <<>>), I1("METHOD", 3), I0("POP"),
            I1("CLASS", 4), I1("DEFINE_GLOBAL", 4), I1("GET_GLOBAL", 1), I1("GET_GLOBAL", 4),
            I0("INHERIT"),
            CL(5, <<>>), I1("METHOD", 3), CL(5, <<>>), I1("METHOD", 7),
            I1("GET_GLOBAL", 4), I1("CALL", 0), I2("INVOKE", 3, 0), I0("PRINT"),
            I1("GET_GLOBAL", 1), I1("CALL", 0), I2("INVOKE", 3, 0), I0("PRINT"),
            I1("GET_GLOBAL", 4), CL(6, <<>>), I1("METHOD", 3), I0("POP"),
            I1("GET_GLOBAL", 4), I1("CALL", 0), I2("INVOKE", 3, 0), I0("PRINT"),
            I1("GET_GLOBAL", 1), I1("CALL", 0), I2("INVOKE", 3, 0), I0("PRINT"),
            I1("GET_GLOBAL", 4), I1("CALL", 0), I2("INVOKE", 7, 0), I0("PRINT"),
            I0("POP"), I0("NIL"), I0("RETURN")>>),
       Fn(<<109>>, 0, 0, <<KNum(1)>>, <<I1("CONSTANT", 1), I0("RETURN")>>),
       Fn(<<109>>, 0, 0, <<KNum(2)>>, <<I1("CONSTANT", 1), I0("RETURN")>>),
       Fn(<<109>>, 0, 0, <<KNum(3)>>, <<I1("CONSTANT", 1), I0("RETURN")>>) >>

\* fun f() { return f(); } f();
ProgRecurse ==
    << Fn(<<>>, 0, 0,
          <<KFn(2), KStr(<<102>>)>>,
          <<CL(1, <<>>), I1("DEFINE_GLOBAL", 2), I1("GET_GLOBAL", 2), I1("CALL", 0),
            I0("POP"), I0("NIL"), I0("RETURN")>>),
       Fn(<<102>>, 0, 0,
          <<KStr(<<102>>)>>,
          <<I1("GET_GLOBAL", 1), I1("CALL", 0), I0("RETURN")>>) >>

\* fun f() { var x = 1; var y = 1; var z = 1; return 1 + (1 + f()); } f();
\* Every frame of f holds UINT8_COUNT locals and three temporaries.
ProgDeep ==
    << Fn(<<>>, 0, 0,
          <<KFn(2), KStr(<<102>>)>>,
          <<CL(1, <<>>), I1("DEFINE_GLOBAL", 2), I1("GET_GLOBAL", 2), I1("CALL", 0),
            I0("POP"), I0("NIL"), I0("RETURN")>>),
       Fn(<<102>>, 0, 0,
          <<KNum(1), KStr(<<102>>)>>,
          <<I1("CONSTANT", 1), I1("CONSTANT", 1), I1("CONSTANT", 1), I1("CONSTANT", 1),
            I1("CONSTANT", 1), I1("GET_GLOBAL", 2), I1("CALL", 0), I0("ADD"), I0("ADD"),
            I0("RETURN")>>) >>

\* fun f(a, b) { return a - b; } print f(3, 1);
ProgArgs ==
    << Fn(<<>>, 0, 0,
          <<KFn(2), KStr(<<102>>), KNum(3), KNum(1)>>,
          <<CL(1, <<>>), I1("DEFINE_GLOBAL", 2), I1("GET_GLOBAL", 2), I1("CONSTANT", 3),
            I1("CONSTANT", 4), I1("CALL", 2), I0("PRINT"), I0("NIL"), I0("RETURN")>>),
       Fn(<<102>>, 2, 0, <<>>,
          <<I1("GET_LOCAL", 1), I1("GET_LOCAL", 2), I0("SUBTRACT"), I0("RETURN")>>) >>

\* The programs that end in a runtime error: a script whose code is `code`
\* followed by the end of the script.
ErrScript(constants, code) ==
    Fn(<<>>, 0, 0, constants, code \o <<I0("NIL"), I0("RETURN")>>)

\* fun f() { var x = 1; fun g() { return x; } return -"a"; } f();
ProgErrNested ==
    << ErrScript(<<KFn(2), KStr(<<102>>)>>,
                 <<CL(1, <<>>), I1("DEFINE_GLOBAL", 2), I1("GET_GLOBAL", 2), I1("CALL", 0),
                   I0("POP")>>),
       Fn(<<102>>, 0, 0,
          <<KNum(1), KFn(3), KStr(<<97>>)>>,
          <<I1("CONSTANT", 1), CL(2, <<Local(1)>>), I1("CONSTANT", 3), I0("NEGATE"),
            I0("RETURN")>>),
       Fn(<<103>>, 0, 1, <<>>, <<I1("GET_UPVALUE", 0), I0("RETURN")>>) >>

\* class C {}  fun f(a) {}  and one failing statement each
ErrPrelude ==
    <<I1("CLASS", 1), I1("DEFINE_GLOBAL", 1), CL(2, <<>>), I1("DEFINE_GLOBAL", 3)>>
ErrConstants ==
    <<KStr(<<67>>), KFn(2), KStr(<<102>>), KNum(1), KStr(<<97>>), KStr(<<117>>)>>
ErrProgram(code) ==
    << ErrScript(ErrConstants, ErrPrelude \o code),
       Fn(<<102>>, 1, 0, <<>>, <<I0("NIL"), I0("RETURN")>>) >>

ErrorPrograms ==
    << \* print 1 + "a";
       ErrProgram(<<I1("CONSTANT", 4), I1("CONSTANT", 5), I0("ADD"), I0("PRINT")>>),
       \* print 1 < "a";
       ErrProgram(<<I1("CONSTANT", 4), I1("CONSTANT", 5), I0("LESS"), I0("PRINT")>>),
       \* print u;
       ErrProgram(<<I1("GET_GLOBAL", 6), I0("PRINT")>>),
       \* u = 1;
       ErrProgram(<<I1("CONSTANT", 4), I1("SET_GLOBAL", 6), I0("POP")>>),
       \* 1();
       ErrProgram(<<I1("CONSTANT", 4), I1("CALL", 0), I0("POP")>>),
       \* f();
       ErrProgram(<<I1("GET_GLOBAL", 3), I1("CALL", 0), I0("POP")>>),
       \* C(1);
       ErrProgram(<<I1("GET_GLOBAL", 1), I1("CONSTANT", 4), I1("CALL", 1), I0("POP")>>),
       \* print 1 .a;
       ErrProgram(<<I1("CONSTANT", 4), I1("GET_PROPERTY", 5), I0("PRINT")>>),
       \* 1 .a = 1;
       ErrProgram(<<I1("CONSTANT", 4), I1("CONSTANT", 4), I1("SET_PROPERTY", 5), I0("POP")>>),
       \* print C().a;
       ErrProgram(<<I1("GET_GLOBAL", 1), I1("CALL", 0), I1("GET_PROPERTY", 5), I0("PRINT")>>),
       \* C().a();
       ErrProgram(<<I1("GET_GLOBAL", 1), I1("CALL", 0), I2("INVOKE", 5, 0), I0("POP")>>),
       \* 1 .a();
       ErrProgram(<<I1("CONSTANT", 4), I2("INVOKE", 5, 0), I0("POP")>>),
       \* class u < f {}
       ErrProgram(<<I1("CLASS", 6), I1("DEFINE_GLOBAL", 6), I1("GET_GLOBAL", 3),
                    I1("GET_GLOBAL", 6), I0("INHERIT"), I1("GET_GLOBAL", 6), I0("POP"),
                    I0("POP")>>) >>

\* class A { init(v) { } m() { } }  and one call with the wrong arguments each
ArityProgram(code) ==
    << ErrScript(<<KStr(<<65>>), KFn(2), KStr(S_init), KFn(3), KStr(<<109>>), KNum(1)>>,
                 <<I1("CLASS", 1), I1("DEFINE_GLOBAL", 1), I1("GET_GLOBAL", 1),
                   CL(2, <<>>), I1("METHOD", 3), CL(4, <<>>), I1("METHOD", 5), I0("POP")>>
                     \o code),
       Fn(S_init, 1, 0, <<>>, <<I1("GET_LOCAL", 0), I0("RETURN")>>),
       Fn(<<109>>, 0, 0, <<>>, <<I0("NIL"), I0("RETURN")>>) >>
ArityPrograms ==
    << \* A();
       ArityProgram(<<I1("GET_GLOBAL", 1), I1("CALL", 0), I0("POP")>>),
       \* A(1).m(1);
       ArityProgram(<<I1("GET_GLOBAL", 1), I1("CONSTANT", 6), I1("CALL", 1),
                      I1("CONSTANT", 6), I2("INVOKE", 5, 1), I0("POP")>>),
       \* var b = A(1).m; b(1);
       ArityProgram(<<I1("GET_GLOBAL", 1), I1("CONSTANT", 6), I1("CALL", 1),
                      I1("GET_PROPERTY", 5), I1("DEFINE_GLOBAL", 5), I1("GET_GLOBAL", 5),
                      I1("CONSTANT", 6), I1("CALL", 1), I0("POP")>>) >>

\* class A { m() { } }  A().m; print "a" + "b";
ProgBound ==
    << ErrScript(<<KStr(<<65>>), KFn(2), KStr(<<109>>), KStr(<<97>>), KStr(<<98>>)>>,
                 <<I1("CLASS", 1), I1("DEFINE_GLOBAL", 1), I1("GET_GLOBAL", 1),
                   CL(2, <<>>), I1("METHOD", 3), I0("POP"),
                   I1("GET_GLOBAL", 1), I1("CALL", 0), I1("GET_PROPERTY", 3), I0("POP"),
                   I1("CONSTANT", 4), I1("CONSTANT", 5), I0("ADD"), I0("PRINT")>>),
       Fn(<<109>>, 0, 0, <<>>, <<I0("NIL"), I0("RETURN")>>) >>

\* class A { }  fun f() { var a = A(); fun g() { return a; } a.g = g; return a; }
\* var x = f(); print "a" + "b";
ProgCycle ==
    << ErrScript(<<KStr(<<65>>), KFn(2), KStr(<<102>>), KStr(<<120>>), KStr(<<97>>),
                   KStr(<<98>>)>>,
                 <<I1("CLASS", 1), I1("DEFINE_GLOBAL", 1), CL(2, <<>>), I1("DEFINE_GLOBAL", 3),
                   I1("GET_GLOBAL", 3), I1("CALL", 0), I1("DEFINE_GLOBAL", 4),
                   I1("CONSTANT", 5), I1("CONSTANT", 6), I0("ADD"), I0("PRINT")>>),
       Fn(<<102>>, 0, 0,
          <<KStr(<<65>>), KFn(3), KStr(<<103>>)>>,
          <<I1("GET_GLOBAL", 1), I1("CALL", 0), CL(2, <<Local(1)>>),
            I1("GET_LOCAL", 1), I1("GET_LOCAL", 2), I1("SET_PROPERTY", 3), I0("POP"),
            I1("GET_LOCAL", 1), I0("RETURN")>>),
       Fn(<<103>>, 0, 1, <<>>, <<I1("GET_UPVALUE", 0), I0("RETURN")>>) >>

\* { var a = 1; var b = 2;
\*   fun r() { var x = 3; var y = 4; { fun i() { return y + x + b; } }
\*             fun j() { return x + y + a; } return j; }
\*   print r()(); }
ProgCaptures ==
    << Fn(<<>>, 0, 0,
          <<KNum(1), KNum(2), KFn(2)>>,
          <<I1("CONSTANT", 1), I1("CONSTANT", 2), CL(3, <<Local(2), Local(1)>>),
            I1("GET_LOCAL", 3), I1("CALL", 0), I1("CALL", 0), I0("PRINT"),
            I0("POP"), I0("CLOSE_UPVALUE"), I0("CLOSE_UPVALUE"),
            I0("NIL"), I0("RETURN")>>),
       Fn(<<114>>, 0, 2,
          <<KNum(3), KNum(4), KFn(3), KFn(4)>>,
          <<I1("CONSTANT", 1), I1("CONSTANT", 2),
            CL(3, <<Local(2), Local(1), Outer(0)>>), I0("POP"),
            CL(4, <<Local(1), Local(2), Outer(1)>>), I1("GET_LOCAL", 3), I0("RETURN")>>),
       Fn(<<105>>, 0, 3, <<>>,
          <<I1("GET_UPVALUE", 0), I1("GET_UPVALUE", 1), I0("ADD"),
            I1("GET_UPVALUE", 2), I0("ADD"), I0("RETURN")>>),
       Fn(<<106>>, 0, 3, <<>>,
          <<I1("GET_UPVALUE", 0), I1("GET_UPVALUE", 1), I0("ADD"),
            I1("GET_UPVALUE", 2), I0("ADD"), I0("RETURN")>>) >>

Programs ==
    <<ProgArith, ProgClosure, ProgOpenUpvalue, ProgNested, ProgClass, ProgSuper, ProgShadow,
      ProgStrings, ProgRebind, ProgRecurse, ProgDeep, ProgErrNested>> \o ErrorPrograms \o <<ProgArgs>>
        \o ArityPrograms \o <<ProgBound, ProgCycle, ProgCaptures>>

(***************************************************************************)
(* compile(): the compiler is not part of these sources.  It is modelled   *)
(* by what it leaves on the heap: one ObjFunction per function of the      *)
(* program, its name and string constants interned with copyString, the    *)
(* function being built kept alive as a compiler root and every   *)
(* constant kept on the stack while it is added, as markCompilerRoots      *)
(* expects.  The bytes of the chunk arrays are not accounted.              *)
(***************************************************************************)
RECURSIVE compileFunction(_, _, _)

\* the function the innermost compiler is building
Current(s) == s.compilers[Len(s.compilers)]

\* initCompiler: the new function (s.ret) becomes the current one
initCompiler(s, d) ==
    [s EXCEPT !.compilers = Append(@, s.ret),
              !.heap[s.ret].arity = d.arity,
              !.heap[s.ret].upvalueCount = d.upvalueCount,
              !.heap[s.ret].code = d.code]
setName(s) == [s EXCEPT !.heap[Current(s)].name = s.ret]
nameFunction(s, d) ==
    IF d.name = <<>> THEN s ELSE Run2(s, LAMBDA x : copyString(x, d.name), setName)

\* addConstant keeps the value on the stack while the array grows
addConstant(s, value) ==
    pop([push(s, value) EXCEPT !.heap[Current(s)].constants = Append(@, value)])
addObject(s) == addConstant(s, OBJ_VAL(s.ret))
emitConstant(s, p, k) ==
    CASE k.k = "num" -> addConstant(s, NUMBER_VAL(k.n))
      [] k.k = "str" -> Run2(s, LAMBDA x : copyString(x, k.c), addObject)
      [] OTHER -> Run2(s, LAMBDA x : compileFunction(x, p, k.n), addObject)

\* endCompiler: the function is returned and its compiler is gone
endCompiler(s) ==
    [s EXCEPT !.compilers = SubSeq(@, 1, Len(@) - 1), !.ret = Current(s)]

compileFunction(s, p, n) ==
    Run5(s, newFunction,
         LAMBDA x : initCompiler(x, p[n]),
         LAMBDA x : nameFunction(x, p[n]),
         LAMBDA x : For8(LAMBDA y, i : emitConstant(y, p, p[n].constants[i]),
                         x, 1, Len(p[n].constants)),
         endCompiler)

compile(s, p) == compileFunction(s, p, 1)

\* interpret, up to the call of run()
wrapScript(s) == newClosure(pushRet(s), s.ret)
callScript(s) == [call(pushRet(pop(s)), s.ret, 0) EXCEPT !.status = "run"]
interpret(s, p) == Run3(s, LAMBDA x : compile(x, p), wrapScript, callScript)

(***************************************************************************)
(* The state machine.  `prog` is the program given to interpret and `mode` *)
(* the build: "stress" collects at every growing allocation                *)
(* (DEBUG_STRESS_GC), "normal" only above the threshold.  The program is   *)
(* run twice by the same actions: first as `ref`, a run in which no        *)
(* collection is ever performed, and, once that run has ended, as the run  *)
(* of the build, in vm, heap, status and out.  `gcLog` holds, for the last *)
(* step of the build's run, one record per collection it performed, in the *)
(* order the collections ended (LogEntry): the objects reachable from the  *)
(* roots when marking began, what was marked, scanned and swept, and the   *)
(* allocation list before and after.  `last` is the instruction that step  *)
(* executed and the state it started from.  A step that performed          *)
(* undefined behaviour                                                     *)
(* either goes on with the stale memory content or ends the process        *)
(* ("crashed").                                                            *)
(***************************************************************************)
ZeroVM ==
    [stack |-> [i \in 0..(StackSlots - 1) |-> NIL_VAL], stackTop |-> 0, frames |-> <<>>,
     openUpvalues |-> 0, objects |-> 0, bytesAllocated |-> 0, nextGC |-> 0,
     globals |-> EmptyTable, strings |-> EmptyTable, initString |-> 0, grayStack |-> <<>>]

RunOf(v, h, st, o, m) ==
    [vm |-> v, heap |-> h, status |-> st, out |-> o, mode |-> m,
     ub |-> FALSE, fatal |-> FALSE, err |-> FALSE, log |-> <<>>,
     compilers |-> <<>>, ret |-> 0, flag |-> FALSE, gc |-> <<>>, grown |-> <<>>]

\* the run whose turn it is
RefRuns == ref.status \in {"boot", "ready", "run"}
Cur ==
    IF RefRuns
    THEN RunOf(ref.vm, ref.heap, ref.status, ref.out, "none")
    ELSE RunOf(vm, heap, status, out, mode)
RefOf(r) == [vm |-> r.vm, heap |-> r.heap, status |-> r.status, out |-> r.out]

NoInstruction == [op |-> "none", a |-> 0, b |-> 0, uv |-> <<>>]
LastOf(i, r) ==
    [op |-> i.op, a |-> i.a, b |-> i.b, err |-> r.err, vm |-> vm, heap |-> heap,
     grown |-> r.grown]

Outcomes(r) == IF r.fatal THEN {TRUE} ELSE IF r.ub THEN {TRUE, FALSE} ELSE {FALSE}

\* the step that instruction i made, from Cur to r, becomes the next state
Commit(r, i) ==
    \E crash \in Outcomes(r) :
        /\ IF RefRuns
           THEN /\ ref' = IF crash THEN [ref EXCEPT !.status = "crashed"] ELSE RefOf(r)
                /\ UNCHANGED <<vm, heap, status, out, ub, gcLog, last>>
           ELSE IF crash
           THEN /\ status' = "crashed"
                /\ ub' = TRUE
                /\ gcLog' = <<>>
                /\ last' = LastOf(NoInstruction, [err |-> FALSE, grown |-> <<>>])
                /\ UNCHANGED <<vm, heap, out, ref>>
           ELSE /\ vm' = r.vm
                /\ heap' = r.heap
                /\ status' = r.status
                /\ out' = r.out
                /\ ub' = r.ub
                /\ gcLog' = r.log
                /\ last' = LastOf(i, r)
                /\ UNCHANGED ref
        /\ UNCHANGED <<prog, mode>>

Init ==
    /\ vm = ZeroVM
    /\ heap = <<>>
    /\ status = "boot"
    /\ out = <<>>
    /\ ub = FALSE
    /\ gcLog = <<>>
    /\ last = [op |-> "none", a |-> 0, b |-> 0, err |-> FALSE, vm |-> ZeroVM, heap |-> <<>>,
               grown |-> <<>>]
    /\ ref = [vm |-> ZeroVM, heap |-> <<>>, status |-> "boot", out |-> <<>>]
    /\ prog \in 1..Len(Programs)
    /\ mode \in {"stress", "normal"}

InitVM ==
    /\ Cur.status = "boot"
    /\ Commit([initVM(Cur) EXCEPT !.status = "ready"], I0("initVM"))

Interpret ==
    /\ Cur.status = "ready"
    /\ Commit(interpret(Cur, Programs[prog]), I0("interpret"))

\* run() is at an instruction whose opcode is in ops
Fetch(ops) == Cur.status = "run" /\ Instruction(Cur).op \in ops

\* One action per case of the switch of run()
OP_CONSTANT ==
    /\ Fetch({"CONSTANT"})
    /\ Commit(opConstant(READ_BYTE(Cur), Instruction(Cur)), Instruction(Cur))

OP_NIL ==
    /\ Fetch({"NIL"})
    /\ Commit(opNil(READ_BYTE(Cur), Instruction(Cur)), Instruction(Cur))

OP_TRUE ==
    /\ Fetch({"TRUE"})
    /\ Commit(opTrue(READ_BYTE(Cur), Instruction(Cur)), Instruction(Cur))

OP_FALSE ==
    /\ Fetch({"FALSE"})
    /\ Commit(opFalse(READ_BYTE(Cur), Instruction(Cur)), Instruction(Cur))

OP_POP ==
    /\ Fetch({"POP"})
    /\ Commit(opPop(READ_BYTE(Cur), Instruction(Cur)), Instruction(Cur))

OP_GET_LOCAL ==
    /\ Fetch({"GET_LOCAL"})
    /\ Commit(opGetLocal(READ_BYTE(Cur), Instruction(Cur)), Instruction(Cur))

OP_DEFINE_GLOBAL ==
    /\ Fetch({"DEFINE_GLOBAL"})
    /\ Commit(opDefineGlobal(READ_BYTE(Cur), Instruction(Cur)), Instruction(Cur))

OP_SET_LOCAL ==
    /\ Fetch({"SET_LOCAL"})
    /\ Commit(opSetLocal(READ_BYTE(Cur), Instruction(Cur)), Instruction(Cur))

OP_SET_GLOBAL ==
    /\ Fetch({"SET_GLOBAL"})
    /\ Commit(opSetGlobal(READ_BYTE(Cur), Instruction(Cur)), Instruction(Cur))

OP_SET_PROPERTY ==
    /\ Fetch({"SET_PROPERTY"})
    /\ Commit(opSetProperty(READ_BYTE(Cur), Instruction(Cur)), Instruction(Cur))

OP_GET_PROPERTY ==
    /\ Fetch({"GET_PROPERTY"})
    /\ Commit(opGetProperty(READ_BYTE(Cur), Instruction(Cur)), Instruction(Cur))

OP_GET_GLOBAL ==
    /\ Fetch({"GET_GLOBAL"})
    /\ Commit(opGetGlobal(READ_BYTE(Cur), Instruction(Cur)), Instruction(Cur))

OP_GET_SUPER ==
    /\ Fetch({"GET_SUPER"})
    /\ Commit(opGetSuper(READ_BYTE(Cur), Instruction(Cur)), Instruction(Cur))

OP_EQUAL ==
    /\ Fetch({"EQUAL"})
    /\ Commit(opEqual(READ_BYTE(Cur), Instruction(Cur)), Instruction(Cur))

OP_SET_UPVALUE ==
    /\ Fetch({"SET_UPVALUE"})
    /\ Commit(opSetUpvalue(READ_BYTE(Cur), Instruction(Cur)), Instruction(Cur))

OP_GET_UPVALUE ==
    /\ Fetch({"GET_UPVALUE"})
    /\ Commit(opGetUpvalue(READ_BYTE(Cur), Instruction(Cur)), Instruction(Cur))

OP_BINARY ==
    /\ Fetch({"GREATER", "LESS", "SUBTRACT", "MULTIPLY", "DIVIDE"})
    /\ Commit(BINARY_OP(READ_BYTE(Cur), Instruction(Cur)), Instruction(Cur))

OP_ADD ==
    /\ Fetch({"ADD"})
    /\ Commit(opAdd(READ_BYTE(Cur), Instruction(Cur)), Instruction(Cur))

OP_NOT ==
    /\ Fetch({"NOT"})
    /\ Commit(opNot(READ_BYTE(Cur), Instruction(Cur)), Instruction(Cur))

OP_NEGATE ==
    /\ Fetch({"NEGATE"})
    /\ Commit(opNegate(READ_BYTE(Cur), Instruction(Cur)), Instruction(Cur))

OP_PRINT ==
    /\ Fetch({"PRINT"})
    /\ Commit(opPrint(READ_BYTE(Cur), Instruction(Cur)), Instruction(Cur))

OP_JUMP ==
    /\ Fetch({"JUMP"})
    /\ Commit(opJump(READ_BYTE(Cur), Instruction(Cur)), Instruction(Cur))

OP_JUMP_IF_FALSE ==
    /\ Fetch({"JUMP_IF_FALSE"})
    /\ Commit(opJumpIfFalse(READ_BYTE(Cur), Instruction(Cur)), Instruction(Cur))

OP_LOOP ==
    /\ Fetch({"LOOP"})
    /\ Commit(opLoop(READ_BYTE(Cur), Instruction(Cur)), Instruction(Cur))

OP_CALL ==
    /\ Fetch({"CALL"})
    /\ Commit(opCall(READ_BYTE(Cur), Instruction(Cur)), Instruction(Cur))

OP_INVOKE ==
    /\ Fetch({"INVOKE"})
    /\ Commit(opInvoke(READ_BYTE(Cur), Instruction(Cur)), Instruction(Cur))

OP_SUPER_INVOKE ==
    /\ Fetch({"SUPER_INVOKE"})
    /\ Commit(opSuperInvoke(READ_BYTE(Cur), Instruction(Cur)), Instruction(Cur))

OP_CLOSURE ==
    /\ Fetch({"CLOSURE"})
    /\ Commit(opClosure(READ_BYTE(Cur), Instruction(Cur)), Instruction(Cur))

OP_CLASS ==
    /\ Fetch({"CLASS"})
    /\ Commit(opClass(READ_BYTE(Cur), Instruction(Cur)), Instruction(Cur))

OP_METHOD ==
    /\ Fetch({"METHOD"})
    /\ Commit(opMethod(READ_BYTE(Cur), Instruction(Cur)), Instruction(Cur))

OP_INHERIT ==
    /\ Fetch({"INHERIT"})
    /\ Commit(opInherit(READ_BYTE(Cur), Instruction(Cur)), Instruction(Cur))

OP_CLOSE_UPVALUE ==
    /\ Fetch({"CLOSE_UPVALUE"})
    /\ Commit(opCloseUpvalue(READ_BYTE(Cur), Instruction(Cur)), Instruction(Cur))

OP_RETURN ==
    /\ Fetch({"RETURN"})
    /\ Commit(opReturn(READ_BYTE(Cur), Instruction(Cur)), Instruction(Cur))

\* freeVM(), once interpret has returned
FreeVM ==
    /\ ~RefRuns
    /\ status \in {"OK", "RUNTIME_ERROR"}
    /\ Commit([freeVM(Cur) EXCEPT !.status = "freed"], I0("freeVM"))

Next ==
    \/ InitVM
    \/ Interpret
    \/ OP_CONSTANT
    \/ OP_NIL
    \/ OP_TRUE
    \/ OP_FALSE
    \/ OP_POP
    \/ OP_GET_LOCAL
    \/ OP_DEFINE_GLOBAL
    \/ OP_SET_LOCAL
    \/ OP_SET_GLOBAL
    \/ OP_SET_PROPERTY
    \/ OP_GET_PROPERTY
    \/ OP_GET_GLOBAL
    \/ OP_GET_SUPER
    \/ OP_EQUAL
    \/ OP_SET_UPVALUE
    \/ OP_GET_UPVALUE
    \/ OP_BINARY
    \/ OP_ADD
    \/ OP_NOT
    \/ OP_NEGATE
    \/ OP_PRINT
    \/ OP_JUMP
    \/ OP_JUMP_IF_FALSE
    \/ OP_LOOP
    \/ OP_CALL
    \/ OP_INVOKE
    \/ OP_SUPER_INVOKE
    \/ OP_CLOSURE
    \/ OP_CLASS
    \/ OP_METHOD
    \/ OP_INHERIT
    \/ OP_CLOSE_UPVALUE
    \/ OP_RETURN
    \/ FreeVM

Spec == Init /\ [][Next]_vars

(***************************************************************************)
(* table.c on its own.  A table (vm.globals) takes every sequence of       *)
(* tableSet, tableDelete and tableAddAll over a few keys whose hashes      *)
(* collide; the table tableAddAll copies from is vm.strings.  Nothing is   *)
(* collected here (mode "none").  ref is the map the two tables stand for, *)
(* kept beside them, and last is the last call with what it returned.      *)
(***************************************************************************)
NumKeys == 3
FromKeys == 1
\* h, x, e, p, u, b, c: in an array of 8, h, x and p meet in bucket 7 and e
\* and u in bucket 0; in an array of 16, h and x still meet in bucket 7
KeyLetters == <<104, 120, 101, 112, 117, 98, 99>>
KeyHeap ==
    [k \in DOMAIN KeyLetters |->
        StringCell(<<KeyLetters[k]>>, hashString(<<KeyLetters[k]>>))]
\* the keys the calls are made with, and the keys that are in vm.globals from
\* the start
Keys == 1..Min(NumKeys, Len(KeyLetters))
Fillers == <<4, 5, 6, 7>>
TableValues == {NIL_VAL, NUMBER_VAL(1)}
Absent == [t |-> "absent", v |-> 0]
Filled ==
    [k \in DOMAIN KeyLetters |->
        IF \E i \in DOMAIN Fillers : Fillers[i] = k THEN NUMBER_VAL(2) ELSE Absent]
NoKeys == [k \in DOMAIN KeyLetters |-> Absent]
TableRun == RunOf(vm, heap, "table", <<>>, "none")
Called(op, key, value, ret) ==
    [op |-> op, a |-> key, b |-> value, ret |-> ret, ref |-> ref.globals]

\* the tables after tableSet(&vm.globals, key, 2) for each key of Fillers
TableInit ==
    /\ vm = For8(LAMBDA x, i : tableSet(x, TableRef("globals", 0), Fillers[i], NUMBER_VAL(2)),
                 RunOf(ZeroVM, KeyHeap, "table", <<>>, "none"), 1, Len(Fillers)).vm
    /\ heap = KeyHeap
    /\ status = "table"
    /\ out = <<>>
    /\ ub = FALSE
    /\ gcLog = <<>>
    /\ last = [op |-> "none", a |-> 0, b |-> NIL_VAL, ret |-> FALSE, ref |-> Filled]
    /\ ref = [globals |-> Filled, strings |-> NoKeys]
    /\ prog = 0
    /\ mode = "none"

\* tableSet(&vm.globals, key, value)
TableSet ==
    \E key \in Keys, value \in TableValues :
        LET r == tableSet(TableRun, TableRef("globals", 0), key, value) IN
        /\ vm' = r.vm
        /\ ub' = r.ub
        /\ last' = Called("tableSet", key, value, r.flag)
        /\ ref' = [ref EXCEPT !.globals[key] = value]
        /\ UNCHANGED <<heap, status, out, gcLog, prog, mode>>

\* tableDelete(&vm.globals, key)
TableDelete ==
    \E key \in Keys :
        LET r == tableDelete(TableRun, vm.globals, key) IN
        /\ vm' = [vm EXCEPT !.globals = r.table]
        /\ ub' = r.ub
        /\ last' = Called("tableDelete", key, NIL_VAL, r.found)
        /\ ref' = [ref EXCEPT !.globals[key] = Absent]
        /\ UNCHANGED <<heap, status, out, gcLog, prog, mode>>

\* tableSet(&vm.strings, key, value): the table tableAddAll will copy from
TableFill ==
    \E key \in 1..Min(FromKeys, NumKeys), value \in TableValues :
        LET r == tableSet(TableRun, TableRef("strings", 0), key, value) IN
        /\ vm' = r.vm
        /\ ub' = r.ub
        /\ last' = Called("fill", key, value, r.flag)
        /\ ref' = [ref EXCEPT !.strings[key] = value]
        /\ UNCHANGED <<heap, status, out, gcLog, prog, mode>>

\* tableAddAll(&vm.strings, &vm.globals)
TableAddAll ==
    LET r == tableAddAll(TableRun, TableRef("strings", 0), TableRef("globals", 0)) IN
    /\ vm' = r.vm
    /\ ub' = r.ub
    /\ last' = Called("tableAddAll", 0, NIL_VAL, FALSE)
    /\ ref' = [ref EXCEPT !.globals = [k \in DOMAIN KeyLetters |-> IF ref.strings[k] # Absent
                                                       THEN ref.strings[k]
                                                       ELSE ref.globals[k]]]
    /\ UNCHANGED <<heap, status, out, gcLog, prog, mode>>

TableNext ==
    \/ TableSet
    \/ TableDelete
    \/ TableFill
    \/ TableAddAll

TableSpec == TableInit /\ [][TableNext]_vars

(***************************************************************************)
(* The properties.  They are stated of the build's run: of its state, and  *)
(* of its last step, from Before to After.                                 *)
(***************************************************************************)
Before == RunOf(last.vm, last.heap, "run", <<>>, mode)
After == RunOf(vm, heap, status, out, mode)
\* the last step of the build's run executed an instruction and did not crash
Stepped == status \in {"run", "OK", "RUNTIME_ERROR"} /\ last.op \notin {"none", "initVM", "interpret"}

\* C1 (GC soundness): no collection's sweep unlinks or frees an object that
\* could be reached from a root (stack, frames, open upvalues, globals, the
\* init string, compiler roots) when that collection began to mark.
C1_GCSoundness == \A n \in DOMAIN gcLog : gcLog[n].reachable \cap gcLog[n].swept = {}

\* C2 (intern uniqueness): every string the VM still refers to (reachable
\* from the roots) is a key of vm.strings exactly once, and two such strings
\* with the same bytes are the same object.
LiveStrings == {a \in Reachable(After) : heap[a].type = "string"}
Interned(a) == {n \in DOMAIN vm.strings.entries : vm.strings.entries[n].key = a}
C2_InternUniqueness ==
    status \in {"ready", "run", "OK"} =>
        /\ \A a \in LiveStrings : Cardinality(Interned(a)) = 1
        /\ \A a, b \in LiveStrings : heap[a].chars = heap[b].chars => a = b

\* C3 (stress GC does not alter semantics): once both runs of the program
\* have ended, the run that collects at every growing allocation has printed
\* the same values, holds the same globals and ended with the same outcome
\* as the run that never collects.
GlobalsOf(s) ==
    {<<s.heap[s.vm.globals.entries[n].key].chars, Repr(s, s.vm.globals.entries[n].value)>> :
         n \in {m \in DOMAIN s.vm.globals.entries : s.vm.globals.entries[m].key # 0}}
Over(st) == st \in {"OK", "RUNTIME_ERROR"}
C3_StressSameAsNoGC ==
    (mode = "stress" /\ Over(ref.status) /\ Over(status)) =>
        /\ out = ref.out
        /\ status = ref.status
        /\ GlobalsOf(After) = GlobalsOf(RunOf(ref.vm, ref.heap, ref.status, ref.out, "none"))

\* the upvalue objects of a heap
Upvalues(h) == {a \in DOMAIN h : h[a].type = "upvalue" /\ h[a].live}
\* the upvalue that the GET_UPVALUE or SET_UPVALUE of the last step named
Named == Upvalue(Before, last.a)

\* C4 (upvalue coherence): an open upvalue stands for the stack slot it was
\* captured from, a slot below stackTop: GET_UPVALUE pushes that slot's
\* content and SET_UPVALUE writes that slot.  An upvalue that a step closes
\* takes the content its slot had, and a closed upvalue keeps its value
\* through every later step but a SET_UPVALUE on it, which GET_UPVALUE then
\* returns.
C4_UpvalueCoherence ==
    Stepped =>
        /\ \A u \in Upvalues(heap) :
               heap[u].location >= 0 =>
                   /\ heap[u].location = heap[u].slot
                   /\ status = "run" => heap[u].slot < vm.stackTop
        /\ \A u \in Upvalues(heap) \cap Upvalues(last.heap) :
               /\ (last.heap[u].location >= 0 /\ heap[u].location < 0)
                      => heap[u].closed = last.vm.stack[heap[u].slot]
               /\ (last.heap[u].location < 0 /\ ~(last.op = "SET_UPVALUE" /\ u = Named))
                      => heap[u].closed = last.heap[u].closed /\ heap[u].location < 0
        /\ (last.op = "GET_UPVALUE" /\ status = "run") =>
               peek(After, 0) = IF last.heap[Named].location >= 0
                                THEN last.vm.stack[last.heap[Named].slot]
                                ELSE last.heap[Named].closed
        /\ (last.op = "SET_UPVALUE" /\ status = "run") =>
               /\ vm.stackTop = last.vm.stackTop
               /\ peek(Before, 0) = IF last.heap[Named].location >= 0
                                    THEN vm.stack[heap[Named].slot]
                                    ELSE heap[Named].closed
\* a GET_UPVALUE reads a closed upvalue whose slot now holds something else
C4_Witness ==
    /\ Stepped /\ status = "run" /\ last.op = "GET_UPVALUE"
    /\ last.heap[Named].location < 0
    /\ last.heap[Named].slot < last.vm.stackTop
    /\ peek(After, 0) = NUMBER_VAL(6)
    /\ last.vm.stack[last.heap[Named].slot] # NUMBER_VAL(6)

\* the frame that the RETURN of the last step left
Left == Frame(Before)
\* C5 (stack balance of calls): when a RETURN goes back to a caller, the
\* operand stack is as deep as just before the call minus the argument
\* count, and the slot that held the callee holds the returned value; a
\* CALL of a native or of a class without initializer, which returns within
\* the instruction, leaves the same depth, with the result in that slot.
C5_CallBalance ==
    /\ (Stepped /\ last.op = "RETURN" /\ status = "run") =>
           /\ vm.stackTop = Left.callDepth - Left.argCount
           /\ Left.slots = Left.callDepth - Left.argCount - 1
           /\ vm.stack[Left.slots] = peek(Before, 0)
           /\ Len(vm.frames) = Len(last.vm.frames) - 1
    /\ (Stepped /\ last.op = "CALL" /\ status = "run" /\ Len(vm.frames) = Len(last.vm.frames)) =>
           /\ vm.stackTop = last.vm.stackTop - last.a
           /\ LET callee == peek(Before, last.a) IN
              IF isObjType(Before, callee, "native")
              THEN peek(After, 0) = clockNative
              ELSE /\ isObjType(After, peek(After, 0), "instance")
                   /\ heap[peek(After, 0).v].klass = callee.v
\* a call of a closure with an argument has returned
C5_Witness ==
    /\ Stepped /\ last.op = "RETURN" /\ status = "run"
    /\ Left.argCount >= 1
    /\ isObjType(Before, last.vm.stack[Left.slots], "closure")
    /\ vm.stackTop = Left.callDepth - Left.argCount

\* the stack effect of the instruction table
Effect(op) ==
    CASE op \in {"CONSTANT", "NIL", "TRUE", "FALSE", "GET_LOCAL", "GET_GLOBAL",
                 "GET_UPVALUE", "CLOSURE", "CLASS"} -> 1
      [] op \in {"SET_LOCAL", "SET_GLOBAL", "SET_UPVALUE", "GET_PROPERTY", "NOT", "NEGATE",
                 "JUMP", "JUMP_IF_FALSE", "LOOP"} -> 0
      [] op \in {"POP", "DEFINE_GLOBAL", "SET_PROPERTY", "GET_SUPER", "EQUAL", "GREATER",
                 "LESS", "ADD", "SUBTRACT", "MULTIPLY", "DIVIDE", "PRINT", "CLOSE_UPVALUE",
                 "INHERIT", "METHOD"} -> 0 - 1
\* C6 (stack balance of single instructions): an instruction other than
\* CALL, RETURN, INVOKE and SUPER_INVOKE that ends without a runtime error
\* changes the operand-stack depth by the stack effect of its opcode.
C6_InstructionBalance ==
    (Stepped /\ ~last.err /\ last.op \notin {"CALL", "RETURN", "INVOKE", "SUPER_INVOKE"}) =>
        vm.stackTop - last.vm.stackTop = Effect(last.op)
\* SET_PROPERTY has removed the instance and left the value
C6_Witness ==
    /\ Stepped /\ ~last.err /\ last.op = "SET_PROPERTY"
    /\ vm.stackTop = last.vm.stackTop - 1
    /\ peek(After, 0) = peek(Before, 0)

\* the name that the last step's instruction carries as its first operand
NameOf == READ_STRING(Before, last.a)
\* the instance a GET_PROPERTY (n = 0) or INVOKE with n arguments works on
Receiver(n) == peek(Before, n)
FieldOf(n) == tableGet(Before, last.heap[Receiver(n).v].fields, NameOf)
MethodOf(n) == tableGet(Before, last.heap[last.heap[Receiver(n).v].klass].methods, NameOf)
\* the instruction works on an instance with a field of that name, whose
\* class has a method of that name
Shadowed(n) ==
    /\ isObjType(Before, Receiver(n), "instance")
    /\ FieldOf(n).found
    /\ MethodOf(n).found

\* C7 (field shadows method): on an instance with a field m of a class with
\* a method m, GET_PROPERTY m pushes the field's value in place of the
\* instance and binds no method, and INVOKE m calls the field's value: a
\* closure gets the new frame, a value that cannot be called is an error.
C7_FieldShadowsMethod ==
    /\ (Stepped /\ last.op = "GET_PROPERTY" /\ Shadowed(0)) =>
           /\ status = "run"
           /\ vm.stackTop = last.vm.stackTop
           /\ peek(After, 0) = FieldOf(0).value
           /\ Len(heap) = Len(last.heap)
    /\ (Stepped /\ last.op = "INVOKE" /\ Shadowed(last.b)) =>
           IF isObjType(Before, FieldOf(last.b).value, "closure")
           THEN status = "run" =>
                    /\ Len(vm.frames) = Len(last.vm.frames) + 1
                    /\ Frame(After).closure = FieldOf(last.b).value.v
                    /\ vm.stack[Frame(After).slots] = FieldOf(last.b).value
           ELSE ~isObjType(Before, FieldOf(last.b).value, "class")
                    /\ ~isObjType(Before, FieldOf(last.b).value, "native")
                    /\ ~isObjType(Before, FieldOf(last.b).value, "bound")
                    => last.err
\* INVOKE has called the closure in the field, which is not the method
C7_Witness ==
    /\ Stepped /\ last.op = "INVOKE" /\ Shadowed(last.b) /\ status = "run"
    /\ Frame(After).closure = FieldOf(last.b).value.v
    /\ MethodOf(last.b).value # FieldOf(last.b).value

\* the classes of a heap, and what a class's method table maps
Classes(h) == {a \in DOMAIN h : h[a].type = "class" /\ h[a].live}
MethodsOf(h, klass) ==
    {<<h[klass].methods.entries[n].key, h[klass].methods.entries[n].value>> :
         n \in {m \in DOMAIN h[klass].methods.entries : h[klass].methods.entries[m].key # 0}}
Instances(h) == {a \in DOMAIN h : h[a].type = "instance" /\ h[a].live}

\* C8 (method inheritance is copy-down): INHERIT gives the subclass every
\* method of the superclass, with the superclass's closure, and changes no
\* other class; METHOD sets the one entry of the class it names and changes
\* no other entry of any class; no other instruction changes a method table,
\* and no instruction changes the class of an instance.
C8_CopyDown ==
    (Stepped /\ ~last.err) =>
        /\ last.op = "INHERIT" =>
               /\ MethodsOf(last.heap, peek(Before, 1).v) \subseteq MethodsOf(heap, peek(Before, 0).v)
               /\ \A c \in Classes(last.heap) \cap Classes(heap) :
                      c # peek(Before, 0).v => MethodsOf(heap, c) = MethodsOf(last.heap, c)
        /\ last.op = "METHOD" =>
               /\ <<NameOf, peek(Before, 0)>> \in MethodsOf(heap, peek(Before, 1).v)
               /\ \A c \in Classes(last.heap) \cap Classes(heap) :
                      {e \in MethodsOf(heap, c) : c # peek(Before, 1).v \/ e[1] # NameOf}
                          = {e \in MethodsOf(last.heap, c) : c # peek(Before, 1).v \/ e[1] # NameOf}
        /\ last.op \notin {"INHERIT", "METHOD"} =>
               \A c \in Classes(last.heap) \cap Classes(heap) :
                   MethodsOf(heap, c) = MethodsOf(last.heap, c)
        /\ \A a \in Instances(last.heap) \cap Instances(heap) : heap[a].klass = last.heap[a].klass
\* METHOD has given a class a method under a name that another class,
\* which inherited it, keeps mapped to the closure it copied
C8_Witness ==
    /\ Stepped /\ ~last.err /\ last.op = "METHOD"
    /\ \E c \in Classes(heap) \ {peek(Before, 1).v} :
           \E e \in MethodsOf(heap, c) :
               /\ e[1] = NameOf /\ e[2] # peek(Before, 0)
               /\ e \in MethodsOf(last.heap, peek(Before, 1).v)
    /\ <<NameOf, peek(Before, 0)>> \in MethodsOf(heap, peek(Before, 1).v)

\* C9 (runtime error propagation): the instruction that detects a runtime
\* error ends the run with RUNTIME_ERROR, an empty operand stack, no frame
\* and no open upvalue; a run that ended with RUNTIME_ERROR did so at the
\* instruction that detected the error, its last.
C9_ErrorPropagation ==
    /\ (Stepped /\ last.err) =>
           /\ status = "RUNTIME_ERROR"
           /\ vm.stackTop = 0
           /\ vm.frames = <<>>
           /\ vm.openUpvalues = 0
    /\ status = "RUNTIME_ERROR" => last.err
\* an error in a called function, with an upvalue open
C9_Witness ==
    /\ Stepped /\ last.err /\ status = "RUNTIME_ERROR"
    /\ Len(last.vm.frames) >= 2
    /\ last.vm.openUpvalues # 0
    /\ last.vm.stackTop > 0
    /\ vm.openUpvalues = 0 /\ vm.frames = <<>> /\ vm.stackTop = 0

\* C10 (resource bounds are hard limits): there are never more frames than
\* FRAMES_MAX nor more values on the operand stack than STACK_MAX.
C10_HardLimits ==
    /\ Len(vm.frames) <= FRAMES_MAX
    /\ vm.stackTop <= STACK_MAX

\* C11 (assignment to an undefined global): OP_SET_GLOBAL of a name that has
\* no binding ends in a runtime error and leaves the globals without a binding
\* for it, so that a later lookup (tableGet) still misses and a later
\* assignment (tableSet) still finds a new key; OP_SET_GLOBAL of a defined name
\* binds the name to the value on top of the stack, keeps every other binding
\* and does not pop.
Bound(s, name) == tableGet(s, s.vm.globals, name).found
C11_SetGlobal ==
    (Stepped /\ last.op = "SET_GLOBAL") =>
        IF Bound(Before, NameOf)
        THEN /\ ~last.err
             /\ vm.stackTop = last.vm.stackTop
             /\ tableGet(After, vm.globals, NameOf) =
                    [found |-> TRUE, value |-> peek(Before, 0), ub |-> FALSE]
             /\ GlobalsOf(After) =
                    {g \in GlobalsOf(Before) : g[1] # heap[NameOf].chars}
                        \cup {<<heap[NameOf].chars, Repr(Before, peek(Before, 0))>>}
        ELSE /\ last.err /\ status = "RUNTIME_ERROR"
             /\ ~Bound(After, NameOf)
             /\ tableSet(After, TableRef("globals", 0), NameOf, NIL_VAL).flag
             /\ GlobalsOf(After) = GlobalsOf(Before)
\* the assignment to the undefined name has failed and left no binding
C11_Witness ==
    /\ Stepped /\ last.op = "SET_GLOBAL" /\ last.err
    /\ ~Bound(Before, NameOf) /\ ~Bound(After, NameOf)
    /\ \E n \in DOMAIN vm.globals.entries :
           vm.globals.entries[n] = [key |-> 0, value |-> BOOL_VAL(TRUE)]

\* the callee of the last instruction: the value a CALL calls, the field or
\* the method an INVOKE calls, the superclass method a SUPER_INVOKE calls
\* (NIL_VAL where the instruction finds nothing to call)
Args == IF last.op = "CALL" THEN last.a ELSE last.b
Callee ==
    CASE last.op = "CALL" -> peek(Before, last.a)
      [] last.op = "INVOKE" ->
             IF ~isObjType(Before, Receiver(Args), "instance") THEN NIL_VAL
             ELSE IF FieldOf(Args).found THEN FieldOf(Args).value
             ELSE MethodOf(Args).value
      [] last.op = "SUPER_INVOKE" ->
             tableGet(Before, last.heap[peek(Before, 0).v].methods, NameOf).value
      [] OTHER -> NIL_VAL
\* the initializers of a class: its methods of the name "init"
Initializers(klass) ==
    {e[2].v : e \in {d \in MethodsOf(last.heap, klass) : last.heap[d[1]].chars = S_init}}
ArityOf(closure) == last.heap[last.heap[closure].function].arity
\* the argument counts the callee accepts
Expected ==
    LET cell == last.heap[Callee.v] IN
    CASE cell.type = "closure" -> {ArityOf(Callee.v)}
      [] cell.type = "bound" -> {ArityOf(cell.method)}
      [] cell.type = "class" ->
             IF Initializers(Callee.v) = {} THEN {0}
             ELSE {ArityOf(c) : c \in Initializers(Callee.v)}
      [] OTHER -> Nat
WrongArgs ==
    /\ Stepped /\ last.op \in {"CALL", "INVOKE", "SUPER_INVOKE"}
    /\ IS_OBJ(Callee)
    /\ Args \notin Expected

\* C12 (arity errors): a call whose argument count is not the one the callee
\* expects (the arity of the function of a closure, of a bound method's
\* method or of a class's initializer, zero for a class without initializer)
\* ends the run in a runtime error: no frame is pushed for the callee and no
\* instruction of it runs.
C12_ArityErrors ==
    WrongArgs => /\ last.err /\ status = "RUNTIME_ERROR"
                 /\ vm.frames = <<>>

\* the elements of a sequence
Range(seq) == {seq[i] : i \in DOMAIN seq}
\* the objects of the allocation list that no root reached when collection e began
Garbage(e) == Range(e.list) \ e.reachable

\* C13 (the collector is complete): every object of the allocation list that
\* no root reaches when a collection marks is unlinked from the list and
\* freed by the sweep of that collection, and is no key of the intern table
\* when the collection ends.
C13_GCCompleteness ==
    \A n \in DOMAIN gcLog :
        /\ Garbage(gcLog[n]) \subseteq gcLog[n].swept
        /\ Garbage(gcLog[n]) \cap Range(gcLog[n].after) = {}
        /\ Garbage(gcLog[n]) \cap gcLog[n].unfreed = {}
        /\ Garbage(gcLog[n]) \cap gcLog[n].final = {}

\* C14 (collections are not re-entrant): no collection begins while another is
\* in progress: between the begin and the end of a collection, the frees of
\* its sweep included, no other collection runs.
C14_NoReentrantGC == \A n \in DOMAIN gcLog : gcLog[n].nested = 0

\* C15 (allocations inside an operation are safe): when a collection begins,
\* the object that the running operation has made last and has not handed
\* over yet (the result of its latest allocation, held in a C local) is
\* reachable from a root.
C15_AllocationSafety ==
    \A n \in DOMAIN gcLog :
        gcLog[n].held # 0 => gcLog[n].held \in gcLog[n].reachable

\* C16 (blackening follows every reference): when the tracing of a collection
\* has ended, every object that a marked object refers to is marked: the
\* name, the method names and the method closures of a marked class, the
\* receiver and the method of a marked bound method, and the referents of
\* every other kind of object.
C16_BlackenComplete == \A n \in DOMAIN gcLog : gcLog[n].open = {}

\* C17 (the init string is a root): once initVM has returned, vm.initString
\* refers to a string with the bytes "init" that has not been freed and is
\* a key of the intern table, whatever collections have run.
C17_InitStringRooted ==
    status \in {"ready", "run", "OK", "RUNTIME_ERROR"} =>
        /\ vm.initString # 0
        /\ heap[vm.initString].live
        /\ heap[vm.initString].chars = S_init
        /\ vm.initString \in KeysOf(vm.strings)

\* C18 (the intern table is weak): in every collection the scan of
\* vm.strings, made when the tracing has ended and before the sweep, removes
\* exactly the keys left unmarked and keeps every marked key, and when the
\* collection ends no key of vm.strings refers to a freed string.
C18_WeakInternTable ==
    \A n \in DOMAIN gcLog :
        /\ gcLog[n].kept = gcLog[n].keys \cap gcLog[n].marked
        /\ gcLog[n].dangling = {}

\* no element occurs twice in the sequence
OnceEach(seq) == \A i, j \in DOMAIN seq : seq[i] = seq[j] => i = j

\* C19 (marking is idempotent and tracing ends): in one collection every
\* object is pushed on the gray stack at most once, null is never pushed,
\* every pushed object is marked, and traceReferences ends with the gray
\* stack empty, on cyclic graphs too.
C19_MarkOnceTraceEnds ==
    \A n \in DOMAIN gcLog :
        /\ OnceEach(gcLog[n].pushed)
        /\ 0 \notin Range(gcLog[n].pushed)
        /\ Range(gcLog[n].pushed) \subseteq gcLog[n].marked
        /\ gcLog[n].gray = 0
\* the instances that a closure stored in one of their fields captures
Cyclic ==
    {a \in Instances(heap) :
        \E c \in TableObjs(heap[a].fields) :
            /\ heap[c].type = "closure"
            /\ \E i \in DOMAIN heap[c].upvalues :
                   heap[heap[c].upvalues[i]].closed = OBJ_VAL(a)}
\* a collection has traced a cycle: the instance was reached again when it
\* was marked already, and was pushed once
C19_Witness ==
    \E n \in DOMAIN gcLog :
        /\ Cyclic \cap gcLog[n].again \cap Range(gcLog[n].pushed) # {}
        /\ OnceEach(gcLog[n].pushed)
        /\ gcLog[n].gray = 0

\* C20 (the sweep keeps the allocation list exact): when a collection ends,
\* the allocation list holds the objects of the list that were marked, in
\* the order they had, and no object has its mark bit set; in every state
\* between the instructions the gray stack is empty and no object of the
\* allocation list is marked.
C20_SweepExact ==
    /\ \A n \in DOMAIN gcLog :
           /\ gcLog[n].after = SelectSeq(gcLog[n].list, LAMBDA a : a \in gcLog[n].marked)
           /\ gcLog[n].stillMarked = {}
    /\ vm.grayStack = <<>>
    /\ \A a \in Range(ListOf(After)) : ~heap[a].isMarked

\* C21 (when a collection starts, and the new threshold): between the
\* instructions bytesAllocated is at most nextGC; a collection of the build
\* without DEBUG_STRESS_GC begins with bytesAllocated above nextGC; and the
\* threshold after a collection is twice the bytes that are left when its
\* sweep has ended.
Retuned(n) ==
    IF n = Len(gcLog) THEN vm.nextGC = GC_HEAP_GROW_FACTOR * gcLog[n].bytesAfter
    ELSE gcLog[n + 1].nested > 0 \/ gcLog[n + 1].limit = GC_HEAP_GROW_FACTOR * gcLog[n].bytesAfter
C21_TriggerAndRetune ==
    /\ vm.bytesAllocated <= vm.nextGC
    /\ \A n \in DOMAIN gcLog :
           /\ mode = "normal" => gcLog[n].bytes > gcLog[n].limit
           /\ Retuned(n)
\* the threshold of initVM has been passed and a collection has set a new one
C21_Witness ==
    /\ mode = "normal" /\ Stepped
    /\ gcLog # <<>>
    /\ last.vm.nextGC = FIRST_GC
    /\ vm.nextGC = GC_HEAP_GROW_FACTOR * vm.bytesAllocated
    /\ vm.nextGC # FIRST_GC

\* the bytes of the blocks that object a accounts for while they are
\* allocated: the object itself and the arrays it owns
BlocksOf(h, a) ==
    (IF h[a].live THEN SizeOf(h[a].type) ELSE 0)
      + CASE h[a].type = "string" ->
                 IF h[a].live THEN SizeOf("char") * (Len(h[a].chars) + 1) ELSE 0
          [] h[a].type = "closure" ->
                 IF h[a].live THEN SizeOf("ptr") * Len(h[a].upvalues) ELSE 0
          [] h[a].type = "instance" -> SizeOf("Entry") * h[a].fields.capacity
          [] h[a].type = "class" -> SizeOf("Entry") * h[a].methods.capacity
          [] OTHER -> 0
\* the bytes of all blocks that reallocate has handed out and not taken back
Footprint ==
    For32(LAMBDA x, a : [sum |-> x.sum + BlocksOf(heap, a)],
          [sum |-> SizeOf("Entry") * (vm.globals.capacity + vm.strings.capacity)],
          1, Len(heap)).sum

\* C22 (the byte count is exact): bytesAllocated is the sum of the sizes of
\* the blocks that are allocated through reallocate at that moment, and it
\* is 0 when freeVM has returned.
C22_ExactAccounting ==
    /\ vm.bytesAllocated = Footprint
    /\ status = "freed" => vm.bytesAllocated = 0

\* the buckets of a table that hold a key, and those a delete left behind
LiveEntries(table) == {i \in DOMAIN table.entries : table.entries[i].key # 0}
Tombstones(table) ==
    {i \in DOMAIN table.entries :
        table.entries[i].key = 0 /\ ~IS_NIL(table.entries[i].value)}
Loaded(table) ==
    /\ table.count = Cardinality(LiveEntries(table)) + Cardinality(Tombstones(table))
    /\ table.count * TABLE_MAX_LOAD_DEN <= table.capacity * TABLE_MAX_LOAD_NUM
    /\ table.capacity > 0 =>
           \E i \in DOMAIN table.entries :
               table.entries[i].key = 0 /\ IS_NIL(table.entries[i].value)
Probed(table) ==
    table.capacity > 0 =>
        \A key \in DOMAIN KeyLetters :
            /\ findEntry(heap, table.entries, table.capacity, key) # -1
            /\ probeString(TableRun, table, heap[key].chars, heap[key].hash,
                           heap[key].hash % table.capacity, 0).ret # -1

\* C23 (load invariant and probe termination): after any sequence of
\* tableSet, tableDelete and tableAddAll, count is the number of live entries
\* plus the number of tombstones and is at most 0.75 * capacity, a table with
\* capacity > 0 has a truly empty bucket, and the probes of findEntry and
\* tableFindString end for every key.
C23_LoadAndProbes ==
    \A table \in {vm.globals, vm.strings} : Loaded(table) /\ Probed(table)
\* a table as full as it may be, with a tombstone in it, after the delete of
\* a key that was there
C23_Witness ==
    /\ last.op = "tableDelete"
    /\ last.ret
    /\ vm.globals.count * TABLE_MAX_LOAD_DEN = vm.globals.capacity * TABLE_MAX_LOAD_NUM
    /\ Tombstones(vm.globals) # {}
    /\ LiveEntries(vm.globals) # {}

\* what tableGet finds for key is what the map holds for it
Maps(table, map) ==
    \A key \in DOMAIN KeyLetters :
        LET got == tableGet(TableRun, table, key) IN
        /\ got.found = (map[key] # Absent)
        /\ got.found => got.value = map[key]
\* the bucket the probe for key starts at
Home(table, key) == (heap[key].hash % table.capacity) + 1

\* C24 (the table is a map): over every sequence of calls on colliding keys,
\* tableGet finds for a key the value of its latest tableSet that no
\* tableDelete followed and finds nothing otherwise, tableSet returns true
\* exactly when the key was absent, tableDelete returns true exactly when the
\* key was present, and a delete loses no other key.
C24_TableIsMap ==
    /\ Maps(vm.globals, ref.globals)
    /\ Maps(vm.strings, ref.strings)
    /\ last.op = "tableSet" => last.ret = (last.ref[last.a] = Absent)
    /\ last.op = "tableDelete" => last.ret = (last.ref[last.a] # Absent)
\* a key was deleted, and another key sits past the tombstone its own probe
\* starts on
C24_Witness ==
    /\ last.op = "tableDelete"
    /\ last.ret
    /\ \E key \in DOMAIN KeyLetters :
           /\ ref.globals[key] # Absent
           /\ Home(vm.globals, key) \in Tombstones(vm.globals)
           /\ Home(vm.globals, key) = Home(vm.globals, last.a)
           /\ tableGet(TableRun, vm.globals, key).found

\* what a table maps: its keys with their values
EntriesOf(table) ==
    {<<table.entries[i].key, table.entries[i].value>> : i \in LiveEntries(table)}

\* C25 (growth keeps the content and drops the tombstones): after every
\* adjustCapacity the table maps the live keys it mapped before to the same
\* values (every key the roots reach, and no key or value it did not map),
\* has no tombstone, and has count equal to the number of its live entries,
\* also when the allocation of the new array ran a collection.
C25_GrowthPreserves ==
    \A n \in DOMAIN last.grown :
        LET g == last.grown[n] IN
        /\ EntriesOf(g.after) \subseteq EntriesOf(g.before)
        /\ {e \in EntriesOf(g.before) : e[1] \in g.reach} \subseteq EntriesOf(g.after)
        /\ Tombstones(g.after) = {}
        /\ g.after.count = Cardinality(LiveEntries(g.after))

\* the stack slots of the upvalues of the open list, head first
OpenSlots(s) == [n \in DOMAIN OpenList(s) |-> s.heap[OpenList(s)[n]].location]
Descending(seq) == \A i, j \in DOMAIN seq : i < j => seq[i] > seq[j]
\* the upvalues of the closure a CLOSURE instruction has just pushed
Captured == Range(heap[peek(After, 0).v].upvalues)

\* C26 (the open-upvalue list is ordered and duplicate-free): the list
\* vm.openUpvalues holds open upvalues in strictly descending order of their
\* stack slots, so at most one per slot; a CLOSURE instruction leaves every
\* upvalue that was open on the list with its slot, creates an upvalue only
\* for a slot that had none, and gives the closure, for a slot that is open,
\* the upvalue of the list.
C26_OpenListOrdered ==
    /\ Descending(OpenSlots(After))
    /\ \A n \in DOMAIN OpenList(After) :
           /\ heap[OpenList(After)[n]].type = "upvalue"
           /\ heap[OpenList(After)[n]].location >= 0
    /\ (Stepped /\ last.op = "CLOSURE" /\ status = "run") =>
           /\ \A u \in Range(OpenList(Before)) :
                  /\ u \in Range(OpenList(After))
                  /\ heap[u].location = last.heap[u].location
           /\ \A u \in Range(OpenList(After)) \ Range(OpenList(Before)) :
                  \A n \in DOMAIN OpenList(Before) : OpenSlots(Before)[n] # heap[u].location
           /\ \A u \in Captured : heap[u].location >= 0 => u \in Range(OpenList(After))
\* a CLOSURE instruction captures two slots that each had an open upvalue,
\* with four upvalues on the list
C26_Witness ==
    /\ Stepped
    /\ last.op = "CLOSURE"
    /\ status = "run"
    /\ Cardinality(Captured \cap Range(OpenList(Before))) >= 2
    /\ Len(OpenList(After)) = 4
    /\ OpenList(After) = OpenList(Before)

\* the slot closeUpvalues is called with by the last step: the base slot of
\* the returning frame, or the top slot of the stack
Threshold ==
    IF last.op = "RETURN" THEN Frame(Before).slots ELSE last.vm.stackTop - 1
Closing == {u \in Range(OpenList(Before)) : last.heap[u].location >= Threshold}

\* C27 (closing upvalues): after a RETURN or a CLOSE_UPVALUE every upvalue
\* that was open on a slot at or above the threshold is off the open list,
\* holds in `closed` the value its slot had, and points at its own closed
\* field; every upvalue that was open on a slot below the threshold is still
\* on the list and unchanged.
C27_CloseUpvalues ==
    (Stepped /\ last.op \in {"RETURN", "CLOSE_UPVALUE"}) =>
        /\ \A u \in Closing :
               /\ u \notin Range(OpenList(After))
               /\ heap[u].closed = last.vm.stack[last.heap[u].location]
               /\ heap[u].location = -1
        /\ \A u \in Range(OpenList(Before)) \ Closing :
               /\ u \in Range(OpenList(After))
               /\ heap[u] = last.heap[u]
        /\ Range(OpenList(After)) \subseteq Range(OpenList(Before))
\* a RETURN closes the two upvalues of its frame's slots and leaves the two
\* upvalues of the caller's slots open
C27_Witness ==
    /\ Stepped
    /\ last.op = "RETURN"
    /\ Cardinality(Closing) = 2
    /\ Len(OpenList(After)) = 2
    /\ \A u \in Closing : heap[u].closed # NIL_VAL

\* every upvalue of the open list is on a slot from `base` up to the top of
\* the stack
OpenWithin(base) ==
    \A n \in DOMAIN OpenSlots(After) :
        base <= OpenSlots(After)[n] /\ OpenSlots(After)[n] < vm.stackTop

\* C28 (open upvalues point into the live stack), as amended: the slot of
\* every upvalue on the open list is below stackTop and at or above the base
\* slot of the outermost call frame, and the list is empty when no frame is
\* left; the slot may lie below the base slot of the current frame.
C28_OpenInLiveStack ==
    IF vm.frames = <<>>
    THEN OpenList(After) = <<>>
    ELSE OpenWithin(vm.frames[1].slots)
\* a callee runs while an upvalue is open on a slot of its caller
C28_Witness ==
    /\ status = "run"
    /\ Len(vm.frames) >= 2
    /\ \E n \in DOMAIN OpenSlots(After) : OpenSlots(After)[n] < Frame(After).slots
\* C28 as stated: the slot of every upvalue on the open list is below
\* stackTop and at or above the base slot of the current (innermost) frame.
C28_OpenInCurrentFrame ==
    vm.frames # <<>> => OpenWithin(Frame(After).slots)

=============================================================================
